---- MODULE Spec2Model ----
(***************************************************************************)
(* idlemerge: automatic merging of Subversion revisions from a source      *)
(* branch to a target working copy.  The module models the concise         *)
(* batching loop (IdleMerge.merge_one_by_one_concise), the conflict        *)
(* handler of IdleMerge.launch_merge, the record-only persistence and the  *)
(* commit message builder (IdleMerge.commit_log, idle_merge_metacomment).  *)
(*                                                                         *)
(* The svn client is an external process: the exit code of each command    *)
(* and the content of each status report are chosen nondeterministically.  *)
(***************************************************************************)
EXTENDS Integers, Sequences, FiniteSets, TLC

\* Revision numbers of the model are 1..MaxRevision.
MaxRevision == 3

Revisions == 1..MaxRevision

VARIABLES
    pc,                     \* position of the run inside launch_merge
    noop,                   \* IdleMerge.noop
    commit_mergeinfo,       \* IdleMerge.commit_mergeinfo
    record_only_filename,   \* IdleMerge.record_only_filename: "" when not configured
    records_file,           \* the record-only file: whether it exists, and its line
    revisions,              \* the eligible revisions handed to the batch loop
    loaded,                 \* what load_record_only_revisions() returned
    record_only_revisions,  \* local of merge_one_by_one_concise
    revisions_to_merge,     \* local of merge_one_by_one_concise
    mergeinfo_revisions,    \* local of merge_one_by_one_concise
    merged,                 \* local of merge_one_by_one_concise
    idx,                    \* position of the inner for loop in revisions_to_merge
    merge_rc,               \* exit code of the last replay command
    replayed_as,            \* how the current revision was replayed
    status,                 \* the last fresh status
    message,                \* the last commit message built
    commits,                \* the calls of IdleMerge.commit, in order
    raised,                 \* the exception that left the batch loop, if any
    exit_code,              \* the value launch_merge returned, NoExit before
    cl_pc,                  \* commit_log called on its own: position
    cl_revisions,           \* commit_log called on its own: first argument
    cl_mergeinfo_revisions, \* commit_log called on its own: second argument
    cl_result,              \* commit_log called on its own: result
    single,                 \* IdleMerge.single
    concise,                \* IdleMerge.concise
    update_rc,              \* exit code of the second update of revert_pristine
    replays,                \* the replays of the batch loop, in order
    conflict_steps,         \* what the conflict handler of launch_merge has done
    children,               \* the child processes the last step spawned, in order
    removed,                \* the paths the last step removed from disk, in order
    reported,               \* the failure reports the last step printed, in order
    merge_call,             \* svn_merge or merge_record_only called on its own
    classify_call,          \* is_no_merge_revision called on its own
    parse_call,             \* Revision._get_msg called on its own
    resolve_call,           \* resolve_conflict called on its own
    revert_call,            \* revert_spurious_merges called on its own
    util_call               \* a helper function called on its own

vars == <<pc, noop, commit_mergeinfo, record_only_filename, records_file, revisions,
          loaded, record_only_revisions, revisions_to_merge, mergeinfo_revisions,
          merged, idx, merge_rc, replayed_as, status, message, commits, raised,
          exit_code, cl_pc, cl_revisions, cl_mergeinfo_revisions, cl_result,
          single, concise, update_rc, replays, conflict_steps, children,
          removed, reported, merge_call, classify_call, parse_call, resolve_call, revert_call,
          util_call>>

orch_vars == <<pc, noop, commit_mergeinfo, record_only_filename, records_file, revisions,
               loaded, record_only_revisions, revisions_to_merge, mergeinfo_revisions,
               merged, idx, merge_rc, replayed_as, status, message, commits, raised,
               exit_code, single, concise, update_rc, replays, conflict_steps,
               children, removed, reported>>

cl_vars == <<cl_pc, cl_revisions, cl_mergeinfo_revisions, cl_result>>

\* The functions called on their own, outside a run of launch_merge.
calls == <<merge_call, classify_call, parse_call, resolve_call, revert_call,
           util_call>>

----------------------------------------------------------------------------
\* Generic helpers.

Range(s) == {s[i] : i \in DOMAIN s}

RECURSIVE insort(_, _)
insort(x, s) ==
    IF s = <<>> THEN <<x>>
    ELSE IF x <= Head(s) THEN <<x>> \o s
    ELSE <<Head(s)>> \o insort(x, Tail(s))

\* Python's sorted() on a list of numbers: ascending, duplicates kept.
RECURSIVE sorted(_)
sorted(s) == IF s = <<>> THEN <<>> ELSE insort(Head(s), sorted(Tail(s)))

RECURSIVE set_iter(_)
\* The order in which a Python set hands out its elements is unspecified; the
\* program only ever sorts or counts what it iterates.  The model iterates in
\* descending order, so that a missing sort shows.
set_iter(S) ==
    IF S = {} THEN <<>>
    ELSE LET m == CHOOSE x \in S : \A y \in S : y <= x
         IN <<m>> \o set_iter(S \ {m})

\* All sequences without repetition over the set S.
RECURSIVE Perms(_)
Perms(S) ==
    IF S = {} THEN {<<>>}
    ELSE UNION {{<<x>> \o p : p \in Perms(S \ {x})} : x \in S}

DistinctSeqs(S) == UNION {Perms(T) : T \in SUBSET S}

AscendingSeqs(S) == {sorted(set_iter(T)) : T \in SUBSET S}

----------------------------------------------------------------------------
\* Log entries of the revisions (Revision.author, Revision.date, Revision.msg).

source == "^/foo/stable"
target == "."
target_url == "^/foo/trunk"

Author(n) == <<"author", n>>
Date(n) == <<"date", n>>

\* A message is a sequence of fragments; a pattern matches when its fragments
\* occur contiguously in it (Python's `pattern in comment`).
DEFAULT_NO_MERGE_PATTERNS ==
    {<<"maven-release-plugin">>, <<"NOMERGE">>, <<"NO-MERGE">>, <<"NO", " ", "MERGE">>,
     <<"NO_MERGE">>}

\* The user message of revision n: even revisions carry a no-merge marker.
Msg(n) ==
    IF n % 2 = 0 THEN <<"fix", " ", "NO_MERGE", " ", ToString(n)>>
    ELSE <<"log message for revision", " ", ToString(n)>>

contains(pattern, comment) ==
    \E i \in 0..(Len(comment) - Len(pattern)) :
        \A j \in 1..Len(pattern) : comment[i + j] = pattern[j]

\* IdleMerge.no_merge_patterns, as the constructor sets it.
no_merge_patterns == DEFAULT_NO_MERGE_PATTERNS

\* A classifier that wants every pattern in the message: what C17 is tested against.
no_merge_under_mutant(patterns, revision, record_only) ==
    \/ (record_only # {} /\ revision \in record_only)
    \/ (patterns # {} /\ \A pattern \in patterns : contains(pattern, Msg(revision)))
\* is_no_merge_revision on an object whose no_merge_patterns is `patterns`;
\* record_only is {} when the argument is None.
no_merge_under(patterns, revision, record_only) ==
    \/ (record_only # {} /\ revision \in record_only)
    \/ \E pattern \in patterns : contains(pattern, Msg(revision))

is_no_merge_revision(revision, record_only) ==
    no_merge_under(no_merge_patterns, revision, record_only)

----------------------------------------------------------------------------
\* Arguments of commit_log and idle_merge_metacomment.  A value is None, a
\* single Revision, a list of revisions or a set of revisions; `items` lists
\* the revision numbers in iteration order.

None == [type |-> "NoneType", items |-> <<>>]
RevisionArg(n) == [type |-> "Revision", items |-> <<n>>]
ListArg(s) == [type |-> "list", items |-> s]
SetArg(S) == [type |-> "set", items |-> set_iter(S)]

\* revisions_as_string(revisions, separator): the sorted numbers, joined.
revisions_as_string(items) == sorted(items)

NoSubject == [form |-> "none", source |-> "", number |-> 0, msg |-> <<>>,
              revs |-> <<>>, target |-> ""]
NoMessage == [subject |-> NoSubject, data |-> <<>>]

\* '[automerge %s@%s] %s' % (self.source, revision.number, revision.msg)
single_revision_message(n) ==
    [form |-> "single", source |-> source, number |-> n, msg |-> Msg(n),
     revs |-> <<>>, target |-> ""]

\* '[automerge %s] Committing mergeinfo changes' % self.source
mergeinfo_message ==
    [form |-> "mergeinfo", source |-> source, number |-> 0, msg |-> <<>>,
     revs |-> <<>>, target |-> ""]

\* 'merge revisions %s from %s to %s'
multi_revisions_message(items) ==
    [form |-> "multi", source |-> source, number |-> 0, msg |-> <<>>,
     revs |-> revisions_as_string(items), target |-> target_url]

\* 'REVISIONS=<csv>' and 'MERGEINFO_REVISIONS=<csv>'
DataLine(tag, revs) == [tag |-> tag, revs |-> revs, author |-> <<>>, date |-> <<>>]
\* 'r%s | %s | %s' % (r.number, r.author, r.date)
RevLine(n) == [tag |-> "r", revs |-> <<n>>, author |-> Author(n), date |-> Date(n)]

\* The union without the sort: what C1 is tested against.
all_revisions_unsorted(r_items, m_items) == set_iter(Range(r_items) \cup Range(m_items))
\* sorted(revisions.union(mergeinfo_revisions)) of idle_merge_metacomment
all_revisions(r_items, m_items) == sorted(set_iter(Range(r_items) \cup Range(m_items)))

\* The lines of the IDLE-DATA block, after the '-- IDLEMERGE DATA --' line.
idle_merge_metacomment(revs, mergeinfo_revs) ==
    LET r_set == Range(revs.items)   \* revisions = set(revisions)
        all == all_revisions(revs.items, mergeinfo_revs.items)
    IN  (IF r_set # {}
            THEN <<DataLine("REVISIONS", revisions_as_string(set_iter(r_set)))>>
            ELSE <<>>)
        \o (IF mergeinfo_revs.items # <<>>
            THEN <<DataLine("MERGEINFO_REVISIONS", revisions_as_string(mergeinfo_revs.items))>>
            ELSE <<>>)
        \o [i \in 1..Len(all) |-> RevLine(all[i])]

Built(subject, revs, mergeinfo_revs) ==
    [error |-> "none",
     message |-> [subject |-> subject, data |-> idle_merge_metacomment(revs, mergeinfo_revs)]]

Failed(error) == [error |-> error, message |-> NoMessage]

\* Indexing a collection with [0]: a set does not support it.
Subscriptable(arg) == arg.type = "list"

\* The subject commit_log selects, and the message with its IDLE-DATA block.
select_message(revs_arg, mergeinfo_arg) ==
    LET revs0 == IF revs_arg.type = "NoneType" THEN ListArg(<<>>) ELSE revs_arg
        mi == IF mergeinfo_arg.type = "NoneType" THEN ListArg(<<>>) ELSE mergeinfo_arg
        revs == IF revs0.type = "Revision" THEN ListArg(revs0.items) ELSE revs0
    IN  IF Len(revs.items) = 1
            THEN IF Subscriptable(revs)
                 THEN Built(single_revision_message(revs.items[1]), revs, mi)
                 ELSE Failed("TypeError")
        ELSE IF revs.items = <<>> /\ Len(mi.items) = 1
            THEN IF Subscriptable(mi)
                 THEN Built(single_revision_message(mi.items[1]), revs, mi)
                 ELSE Failed("TypeError")
        ELSE IF revs.items = <<>> /\ Len(mi.items) > 1
            THEN Built(mergeinfo_message, revs, mi)
        ELSE Built(multi_revisions_message(revs.items), revs, mi)

\* commit_log without its check for two empty collections: what C3 is tested against.
commit_log_mutant(revs_arg, mergeinfo_arg) == select_message(revs_arg, mergeinfo_arg)
\* commit_log: raise Error('No revision provided') when both are empty.
commit_log(revs_arg, mergeinfo_arg) ==
    IF revs_arg.items = <<>> /\ mergeinfo_arg.items = <<>>
        THEN Failed("Error")
        ELSE select_message(revs_arg, mergeinfo_arg)

----------------------------------------------------------------------------
\* Status reports (Status, StatusEntry).

Entry(path, item, props, tc) ==
    [path |-> path, item |-> item, props |-> props, tree_conflicted |-> tc]

\* The target root with its svn:mergeinfo property modified.
RootProps == Entry(".", "normal", "modified", FALSE)

PropsOnlyStatus == <<RootProps>>
ChangedStatus == <<RootProps, Entry("a.txt", "modified", "none", FALSE)>>
ConflictStatus == <<RootProps, Entry("a.txt", "conflicted", "none", FALSE)>>

\* The same with a file the build left behind, which svn lists as 'unversioned'.
UnversionedStatus == <<RootProps, Entry("build.log", "unversioned", "none", FALSE)>>

\* What a fresh `svn status` may report after a replay.
StatusReports == {PropsOnlyStatus, ChangedStatus, ConflictStatus, UnversionedStatus}

\* StatusEntry.has_conflict
entry_has_conflict(e) == e.tree_conflicted \/ "conflicted" \in {e.props, e.item}

\* StatusEntry.has_non_props_changes
entry_has_non_props_changes(e) ==
    entry_has_conflict(e) \/ e.item \notin {"normal", "unversionnned"}

\* Status.conflict_entries
conflict_entries(st) == SelectSeq(st, entry_has_conflict)

\* A has_conflict that sees tree conflicts only.
has_conflict_mutant(st) == \E i \in DOMAIN st : st[i].tree_conflicted

\* Status.has_conflict
has_conflict(st) == conflict_entries(st) # <<>>

\* Status.has_non_props_changes()
has_non_props_changes(st) == \E i \in DOMAIN st : entry_has_non_props_changes(st[i])

----------------------------------------------------------------------------
\* Record-only persistence.

FileAbsent == [exists |-> FALSE, line |-> <<>>]
FileWith(line) == [exists |-> TRUE, line |-> line]

\* load_record_only_revisions: the numbers of the comma-separated line.
load_record_only_revisions(filename, file) ==
    IF filename = "" \/ ~file.exists THEN {} ELSE Range(file.line)

\* The save that writes nothing: what C12 is tested against.
save_record_only_revisions_mutant(filename, file, revs) == file
\* save_record_only_revisions: one line of sorted numbers; nothing without a path.
save_record_only_revisions(filename, file, revs) ==
    IF filename = "" THEN file ELSE FileWith(revisions_as_string(set_iter(revs)))

----------------------------------------------------------------------------
\* The run.

NoExit == -1
NoRaise == [type |-> "none", revision |-> 0, mergeinfos |-> {}]
ExitCodes == {0, 1}

\* commit_log is not being called on its own.
NoCommitLog ==
    /\ cl_pc = "off"
    /\ cl_revisions = None
    /\ cl_mergeinfo_revisions = None
    /\ cl_result = Failed("not called")

\* A function of the program that is not being called on its own.
NoCall == [pc |-> "off"]

NoCalls ==
    /\ merge_call = NoCall
    /\ classify_call = NoCall
    /\ parse_call = NoCall
    /\ resolve_call = NoCall
    /\ revert_call = NoCall
    /\ util_call = NoCall

Init ==
    /\ pc = "concise"
    /\ noop \in BOOLEAN
    /\ commit_mergeinfo \in BOOLEAN
    /\ record_only_filename \in {"", "record_only.txt"}
    /\ records_file \in
         IF record_only_filename = "" THEN {FileAbsent}
         ELSE {FileAbsent} \cup {FileWith(l) : l \in AscendingSeqs(Revisions)}
    /\ revisions \in AscendingSeqs(Revisions)
    /\ loaded = {}
    /\ record_only_revisions = {}
    /\ revisions_to_merge = <<>>
    /\ mergeinfo_revisions = {}
    /\ merged = {}
    /\ idx = 0
    /\ merge_rc = 0
    /\ replayed_as = "none"
    /\ status = <<>>
    /\ message = NoMessage
    /\ commits = <<>>
    /\ raised = NoRaise
    /\ exit_code = NoExit
    /\ cl_pc = "off"
    /\ cl_revisions = None
    /\ cl_mergeinfo_revisions = None
    /\ cl_result = Failed("not called")
    /\ single = TRUE
    /\ concise = TRUE
    /\ update_rc = NoExit
    /\ replays = <<>>
    /\ conflict_steps = <<>>
    /\ children = <<>>
    /\ removed = <<>>
    /\ reported = <<>>
    /\ NoCalls

\* The loaded set kept whole: what C9 is tested against.
still_eligible_mutant(record_only, eligible) == record_only
\* The persisted revisions the run keeps: those that are eligible again.
still_eligible(record_only, eligible) ==
    IF record_only # {} THEN record_only \cap Range(eligible) ELSE record_only

\* SvnWrapper.run: the argument vector of the child process it spawns for
\* the options given (no SvnAuth is ever passed to the wrapper).
svn_run(options) == <<"svn", "--non-interactive">> \o options

\* The argument vectors of the svn commands of IdleMerge.  The elements
\* source, "@", n of merge_argv stand for the one argument '<branch>@<n>', and
\* "commit_log" for the text of the message.
revert_all_argv == svn_run(<<"revert", "-R", target>>)
update_argv == svn_run(<<"update", "--ignore-externals", target>>)
status_argv == svn_run(<<"status", "--ignore-externals", "--xml", target>>)
mergeinfo_argv == svn_run(<<"mergeinfo", "--show-revs", "eligible", source, target>>)
log_argv(n) == svn_run(<<"log", "--xml", "-v", "-r", ToString(n), source>>)
merge_argv(n) ==
    svn_run(<<"--accept", "postpone", "merge", "-c", ToString(n),
              source, "@", ToString(n), target>>)
merge_record_only_argv(n) ==
    svn_run(<<"merge", "--accept", "postpone", "--record-only", "-c", ToString(n),
              source, target>>)
commit_argv == svn_run(<<"commit", "-m", "commit_log", target>>)
info_argv == svn_run(<<"info", "--xml", "a.txt">>)
cat_argv(n) == svn_run(<<"cat", "-r", ToString(n), "^/foo/stable/a.txt">>)
cat_head_argv == svn_run(<<"cat", "-r", "HEAD", "a.txt">>)
resolved_argv == svn_run(<<"resolved", "a.txt">>)
revert_argv == svn_run(<<"revert", "a.txt">>)

\* Conflict.status: execute_command(['svn', 'status'])
conflict_status_argv == <<"svn", "status">>

\* The child processes of one replay of revision n: `svn log` when the
\* revision is read for the first time, then merge_record_only, or svn_merge
\* with an update after each attempt that met a mixed-revision working copy.
replay_children(n, how, first_time) ==
    LET log == IF first_time THEN <<log_argv(n)>> ELSE <<>>
        m == merge_argv(n)
        u == update_argv
    IN  IF how = "record-only" THEN {log \o <<merge_record_only_argv(n)>>}
        ELSE {log \o c : c \in {<<m>>, <<m, u, m>>, <<m, u, m, u, m>>,
                                <<m, u, m, u, m, u>>}}

\* The child processes of resolve_conflicts(revision): the status, and for a
\* conflicted entry `svn info`, the two `svn cat` of a double add and
\* `svn resolved`.
resolve_children(n) ==
    {<<status_argv>>,
     <<status_argv, info_argv>>,
     <<status_argv, info_argv, resolved_argv>>,
     <<status_argv, info_argv, cat_argv(n), cat_head_argv, resolved_argv>>}

\* The child processes of revert_spurious_merges: `svn log` when the paths of
\* the revision are the first thing read of it, the status, and the revert
\* when there is a path to revert.
revert_spurious_children(n, first_time) ==
    LET log == IF first_time THEN <<log_argv(n)>> ELSE <<>>
    IN  {log \o <<status_argv>>, log \o <<status_argv, revert_argv>>}

\* The child process of IdleMerge.commit: the revert in noop mode.
commit_children == IF noop THEN <<revert_all_argv>> ELSE <<commit_argv>>

\* How many times revision n has been replayed.
replayed_times(n) == Cardinality({i \in DOMAIN replays : replays[i].revision = n})

\* merge_one_by_one_concise, up to the while loop.
ConciseBegin ==
    /\ pc = "concise"
    /\ LET ro == load_record_only_revisions(record_only_filename, records_file)
       IN /\ loaded' = ro
          /\ record_only_revisions' = still_eligible(ro, revisions)
    /\ revisions_to_merge' = revisions
    /\ mergeinfo_revisions' = {}
    /\ pc' = "while"
    /\ UNCHANGED <<noop, commit_mergeinfo, record_only_filename, records_file, revisions,
                   merged, idx, merge_rc, replayed_as, status, message, commits, raised,
                   exit_code>>
    /\ UNCHANGED <<single, concise, update_rc, replays, conflict_steps>>
    /\ children' = <<>>
    /\ removed' = <<>>
    /\ reported' = <<>>
    /\ UNCHANGED <<cl_vars, calls>>

\* The head of the while loop: a new pass over revisions_to_merge.
WhileLoop ==
    /\ pc = "while"
    /\ IF revisions_to_merge # <<>>
         THEN /\ merged' = {}
              /\ mergeinfo_revisions' = {}
              /\ idx' = 1
              /\ pc' = "replay"
         ELSE /\ pc' = "final_save"
              /\ UNCHANGED <<merged, mergeinfo_revisions, idx>>
    /\ UNCHANGED <<noop, commit_mergeinfo, record_only_filename, records_file, revisions,
                   loaded, record_only_revisions, revisions_to_merge, merge_rc,
                   replayed_as, status, message, commits, raised, exit_code>>
    /\ UNCHANGED <<single, concise, update_rc, replays, conflict_steps>>
    /\ children' = <<>>
    /\ removed' = <<>>
    /\ reported' = <<>>
    /\ UNCHANGED <<cl_vars, calls>>

\* The revision the inner for loop is at.
revision == revisions_to_merge[idx]

\* One replay: the revision and the command chosen for it.
Replayed(r, how) == [revision |-> r, as |-> how]

\* What svn_merge prints when its command failed after the retries.
ExecutingFailed == <<"Executing", "failed !">>

\* What merge_one_by_one prints for a replay whose result is true.
ErrorReturned(return_code) == <<"Error", return_code, "returned when merging">>

\* The value svn_merge returns, as `%s` prints it: True when the command
\* ended with exit code 0, False otherwise.
svn_merge_result(rc) == IF rc = 0 THEN "True" ELSE "False"

\* The value merge_record_only returns: the exit code of its command.
merge_record_only_result(rc) == ToString(rc)

\* Python's truth value of a result printed as text.
truth(text) == text \notin {"False", "0"}

\* The failure reports of one replay: those of svn_merge itself.
replay_report(how, rc) ==
    IF how = "merge" /\ rc # 0 THEN <<ExecutingFailed>> ELSE <<>>

\* The failure reports of one turn of merge_one_by_one: those of the replay,
\* then the line printed under `if return_code:`.
merge_one_by_one_report(how, rc) ==
    LET return_code == IF how = "merge" THEN svn_merge_result(rc)
                       ELSE merge_record_only_result(rc)
    IN  replay_report(how, rc)
          \o (IF truth(return_code) THEN <<ErrorReturned(return_code)>> ELSE <<>>)

\* The replay of one revision: merge_record_only or svn_merge.
Replay ==
    /\ pc = "replay"
    /\ replayed_as' = IF is_no_merge_revision(revision, record_only_revisions)
                        THEN "record-only" ELSE "merge"
    /\ merge_rc' \in ExitCodes
    /\ replays' = Append(replays, Replayed(revision, replayed_as'))
    /\ pc' = "resolve"
    /\ UNCHANGED <<noop, commit_mergeinfo, record_only_filename, records_file, revisions,
                   loaded, record_only_revisions, revisions_to_merge, mergeinfo_revisions,
                   merged, idx, status, message, commits, raised, exit_code>>
    /\ UNCHANGED <<single, concise, update_rc, conflict_steps>>
    /\ children' \in replay_children(revision, replayed_as',
                                   /\ replayed_times(revision) = 0
                                   /\ revision \notin record_only_revisions)
    /\ removed' = <<>>
    /\ reported' = replay_report(replayed_as', merge_rc')
    /\ UNCHANGED <<cl_vars, calls>>

\* resolve_conflicts(revision)
ResolveConflicts ==
    /\ pc = "resolve"
    /\ pc' = "revert"
    /\ UNCHANGED <<noop, commit_mergeinfo, record_only_filename, records_file, revisions,
                   loaded, record_only_revisions, revisions_to_merge, mergeinfo_revisions,
                   merged, idx, merge_rc, replayed_as, status, message, commits, raised,
                   exit_code>>
    /\ UNCHANGED <<single, concise, update_rc, replays, conflict_steps>>
    /\ children' \in resolve_children(revision)
    /\ removed' = <<>>
    /\ reported' = <<>>
    /\ UNCHANGED <<cl_vars, calls>>

\* revert_spurious_merges(revision, merged_paths)
RevertSpuriousMerges ==
    /\ pc = "revert"
    /\ pc' = "status"
    /\ UNCHANGED <<noop, commit_mergeinfo, record_only_filename, records_file, revisions,
                   loaded, record_only_revisions, revisions_to_merge, mergeinfo_revisions,
                   merged, idx, merge_rc, replayed_as, status, message, commits, raised,
                   exit_code>>
    /\ UNCHANGED <<single, concise, update_rc, replays, conflict_steps>>
    /\ children' \in revert_spurious_children(revision,
                                            /\ replayed_times(revision) = 1
                                            /\ revision \in record_only_revisions)
    /\ removed' = <<>>
    /\ reported' = <<>>
    /\ UNCHANGED <<cl_vars, calls>>

\* The pending revisions left out of the Conflict: what C6 is tested against.
conflict_mergeinfos_mutant(pending, record_only) == record_only
\* The mergeinfos of the Conflict raised: what is pending and what was persisted.
conflict_mergeinfos(pending, record_only) == pending \cup record_only

\* The fresh status and what the loop does with it, up to the commit.
FreshStatus ==
    /\ pc = "status"
    /\ status' \in StatusReports
    /\ IF has_conflict(status')
         THEN /\ raised' = [type |-> "Conflict", revision |-> revision,
                            mergeinfos |-> conflict_mergeinfos(mergeinfo_revisions,
                                                              record_only_revisions)]
              /\ pc' = "conflict"
              /\ UNCHANGED <<mergeinfo_revisions, merged, idx, message>>
       ELSE IF has_non_props_changes(status')
         THEN LET log == commit_log(RevisionArg(revision), SetArg(mergeinfo_revisions))
              IN /\ merged' = mergeinfo_revisions \cup {revision}
                 /\ message' = log.message
                 /\ IF log.error = "none"
                      THEN pc' = "commit" /\ raised' = raised
                      ELSE /\ pc' = "crashed"
                           /\ raised' = [type |-> log.error, revision |-> revision,
                                         mergeinfos |-> {}]
                 /\ UNCHANGED <<mergeinfo_revisions, idx>>
       ELSE /\ mergeinfo_revisions' = mergeinfo_revisions \cup {revision}
            /\ idx' = idx + 1
            /\ pc' = IF idx + 1 > Len(revisions_to_merge) THEN "after_for" ELSE "replay"
            /\ UNCHANGED <<merged, message, raised>>
    /\ UNCHANGED <<noop, commit_mergeinfo, record_only_filename, records_file, revisions,
                   loaded, record_only_revisions, revisions_to_merge, merge_rc,
                   replayed_as, commits, exit_code>>
    /\ UNCHANGED <<single, concise, update_rc, replays, conflict_steps>>
    /\ children' = <<status_argv>>
    /\ removed' = <<>>
    /\ reported' = <<>>
    /\ UNCHANGED <<cl_vars, calls>>

\* IdleMerge.commit with the message built, then the test of svn.return_code.
\* In noop mode the command run is the recursive revert.
commit(msg, rc) == [message |-> msg, rc |-> rc, issued |-> ~noop]

\* The commit of a revision with content changes, and the break.
CommitContent ==
    /\ pc = "commit"
    /\ \E rc \in ExitCodes :
         /\ commits' = Append(commits, commit(message, rc))
         /\ mergeinfo_revisions' = IF rc = 0 THEN {} ELSE mergeinfo_revisions
    /\ pc' = "after_for"
    /\ UNCHANGED <<noop, commit_mergeinfo, record_only_filename, records_file, revisions,
                   loaded, record_only_revisions, revisions_to_merge, merged, idx,
                   merge_rc, replayed_as, status, message, raised, exit_code>>
    /\ UNCHANGED <<single, concise, update_rc, replays, conflict_steps>>
    /\ children' = commit_children
    /\ removed' = <<>>
    /\ reported' = <<>>
    /\ UNCHANGED <<cl_vars, calls>>

\* Only the last revision of the pass removed: what C4 is tested against.
remaining_mutant(to_merge, done) ==
    SelectSeq(to_merge, LAMBDA r : r \notin done \/ \E d \in done : d > r)
\* What is left of revisions_to_merge after a pass.
remaining(to_merge, done) == SelectSeq(to_merge, LAMBDA r : r \notin done)

\* After the for loop: only mergeinfo changes, or back to the while loop.
AfterFor ==
    /\ pc = "after_for"
    /\ IF mergeinfo_revisions = Range(revisions_to_merge)
         THEN IF commit_mergeinfo
                THEN LET log == commit_log(None, SetArg(mergeinfo_revisions))
                     IN /\ merged' = mergeinfo_revisions
                        /\ message' = log.message
                        /\ IF log.error = "none"
                             THEN pc' = "commit_mergeinfo" /\ raised' = raised
                             ELSE /\ pc' = "crashed"
                                  /\ raised' = [type |-> log.error, revision |-> 0,
                                                mergeinfos |-> {}]
                        /\ UNCHANGED <<records_file, revisions_to_merge, exit_code>>
                ELSE /\ records_file' = save_record_only_revisions(
                            record_only_filename, records_file,
                            mergeinfo_revisions \cup record_only_revisions)
                     /\ pc' = "done"
                     /\ exit_code' = 0
                     /\ UNCHANGED <<merged, message, raised, revisions_to_merge>>
         ELSE /\ revisions_to_merge' = remaining(revisions_to_merge, merged)
              /\ pc' = "while"
              /\ UNCHANGED <<records_file, merged, message, raised, exit_code>>
    /\ UNCHANGED <<noop, commit_mergeinfo, record_only_filename, revisions, loaded,
                   record_only_revisions, mergeinfo_revisions, idx, merge_rc,
                   replayed_as, status, commits>>
    /\ UNCHANGED <<single, concise, update_rc, replays, conflict_steps>>
    /\ children' = <<>>
    /\ removed' = <<>>
    /\ reported' = <<>>
    /\ UNCHANGED <<cl_vars, calls>>

\* The commit of the pending mergeinfo-only revisions, and the break.
CommitMergeinfo ==
    /\ pc = "commit_mergeinfo"
    /\ \E rc \in ExitCodes :
         /\ commits' = Append(commits, commit(message, rc))
         /\ mergeinfo_revisions' = IF rc = 0 THEN {} ELSE mergeinfo_revisions
    /\ pc' = "final_save"
    /\ UNCHANGED <<noop, commit_mergeinfo, record_only_filename, records_file, revisions,
                   loaded, record_only_revisions, revisions_to_merge, merged, idx,
                   merge_rc, replayed_as, status, message, raised, exit_code>>
    /\ UNCHANGED <<single, concise, update_rc, replays, conflict_steps>>
    /\ children' = commit_children
    /\ removed' = <<>>
    /\ reported' = <<>>
    /\ UNCHANGED <<cl_vars, calls>>

\* The end of merge_one_by_one_concise and the return of launch_merge.
FinalSave ==
    /\ pc = "final_save"
    /\ records_file' = save_record_only_revisions(
           record_only_filename, records_file, mergeinfo_revisions)
    /\ pc' = "done"
    /\ exit_code' = 0
    /\ UNCHANGED <<noop, commit_mergeinfo, record_only_filename, revisions, loaded,
                   record_only_revisions, revisions_to_merge, mergeinfo_revisions,
                   merged, idx, merge_rc, replayed_as, status, message, commits, raised>>
    /\ UNCHANGED <<single, concise, update_rc, replays, conflict_steps>>
    /\ children' = <<>>
    /\ removed' = <<>>
    /\ reported' = <<>>
    /\ UNCHANGED <<cl_vars, calls>>

\* What the conflict sink may do: email_conflict returns when no mail is to
\* be sent, when the mail was sent and when smtplib raised an SMTPException;
\* any other exception (no server to connect to, an append file that cannot
\* be read) leaves it and launch_merge.
EmailOutcomes == {"not sent", "sent", "SMTPException", "raised"}

\* launch_merge, except Conflict: print str(conflict).
PrintConflict ==
    /\ pc = "conflict"
    /\ conflict_steps' = Append(conflict_steps, "print")
    /\ pc' = "conflict_save"
    /\ UNCHANGED <<noop, commit_mergeinfo, record_only_filename, records_file, revisions,
                   loaded, record_only_revisions, revisions_to_merge, mergeinfo_revisions,
                   merged, idx, merge_rc, replayed_as, status, message, commits, raised,
                   exit_code>>
    /\ UNCHANGED <<single, concise, update_rc, replays>>
    /\ children' = <<conflict_status_argv>>
    /\ removed' = <<>>
    /\ reported' = <<>>
    /\ UNCHANGED <<cl_vars, calls>>

\* launch_merge, except Conflict: save_record_only_revisions(conflict.mergeinfos).
SaveOnConflict ==
    /\ pc = "conflict_save"
    /\ records_file' = save_record_only_revisions(
           record_only_filename, records_file, raised.mergeinfos)
    /\ conflict_steps' = Append(conflict_steps, "save")
    /\ pc' = "conflict_email"
    /\ UNCHANGED <<noop, commit_mergeinfo, record_only_filename, revisions, loaded,
                   record_only_revisions, revisions_to_merge, mergeinfo_revisions,
                   merged, idx, merge_rc, replayed_as, status, message, commits, raised,
                   exit_code>>
    /\ UNCHANGED <<single, concise, update_rc, replays>>
    /\ children' = <<>>
    /\ removed' = <<>>
    /\ reported' = <<>>
    /\ UNCHANGED <<cl_vars, calls>>

\* launch_merge, except Conflict: mail_handler.email_conflict(conflict), return 1.
EmailConflict ==
    /\ pc = "conflict_email"
    /\ \E outcome \in EmailOutcomes :
         IF outcome = "raised"
           THEN /\ conflict_steps' = Append(conflict_steps, "email raised")
                /\ pc' = "crashed"
                /\ exit_code' = exit_code
           ELSE /\ conflict_steps' = Append(conflict_steps, "email")
                /\ pc' = "done"
                /\ exit_code' = 1
    /\ UNCHANGED <<noop, commit_mergeinfo, record_only_filename, records_file, revisions,
                   loaded, record_only_revisions, revisions_to_merge, mergeinfo_revisions,
                   merged, idx, merge_rc, replayed_as, status, message, commits, raised>>
    /\ UNCHANGED <<single, concise, update_rc, replays>>
    /\ children' = <<>>
    /\ removed' = <<>>
    /\ reported' = <<>>
    /\ UNCHANGED <<cl_vars, calls>>

Next ==
    \/ ConciseBegin
    \/ WhileLoop
    \/ Replay
    \/ ResolveConflicts
    \/ RevertSpuriousMerges
    \/ FreshStatus
    \/ CommitContent
    \/ AfterFor
    \/ CommitMergeinfo
    \/ FinalSave
    \/ PrintConflict
    \/ SaveOnConflict
    \/ EmailConflict

Spec == Init /\ [][Next]_vars

\* The same run, which goes on as long as it has a next statement: the program
\* has one thread, and every child process it waits for ends.
FairSpec == Spec /\ WF_vars(Next)

----------------------------------------------------------------------------
\* launch_merge from its first line: the workspace reset, the eligibility
\* query, the dispatch on the mode and the two batch loops.

\* Status.is_unversionned of an entry: the item compared with 'unversionned'.
is_unversionned(e) == e.item = "unversionned"

\* Status.unversionned
unversionned(st) == SelectSeq(st, LAMBDA e : ~is_unversionned(e))

\* What `svn status` may report after the recursive revert and the update:
\* nothing, a file that is not under version control, and entries that are
\* under version control: status also lists a file that holds a lock or is
\* switched, with the item 'normal'.
CleanStatus == <<>>
LitteredStatus == <<Entry("build.log", "unversioned", "none", FALSE)>>
LockedStatus == <<Entry("a.txt", "normal", "none", FALSE)>>
PristineStatuses == {CleanStatus, LitteredStatus, LockedStatus, LitteredStatus \o LockedStatus}

\* The paths of the entries of a status, in its order.
paths_of(entries) == [i \in DOMAIN entries |-> entries[i].path]

\* revert_pristine up to the removal of the entries of status.unversionned.
RevertPristine ==
    /\ pc = "launch"
    /\ status' \in PristineStatuses
    /\ IF unversionned(status') = <<>>
         THEN pc' = "eligible" /\ removed' = <<>>
         ELSE pc' = "second_update" /\ removed' = paths_of(unversionned(status'))
    /\ UNCHANGED <<noop, commit_mergeinfo, record_only_filename, records_file, revisions,
                   loaded, record_only_revisions, revisions_to_merge, mergeinfo_revisions,
                   merged, idx, merge_rc, replayed_as, message, commits, raised,
                   exit_code>>
    /\ UNCHANGED <<single, concise, update_rc, replays, conflict_steps>>
    /\ children' = <<revert_all_argv, update_argv, status_argv>>
    /\ reported' = <<>>
    /\ UNCHANGED <<cl_vars, calls>>

\* Error('Failed to reset workspace !') and Error('Not implemented')
ResetFailed ==
    [type |-> "Error: Failed to reset workspace !", revision |-> 0, mergeinfos |-> {}]
NotImplemented == [type |-> "Error: Not implemented", revision |-> 0, mergeinfos |-> {}]

\* `if self.svn_update() == 0: raise Error('Failed to reset workspace !')`
raises_on_update(rc) == rc = 0

\* revert_pristine: the second update and the test of its exit code.
SecondUpdate ==
    /\ pc = "second_update"
    /\ update_rc' \in ExitCodes
    /\ IF raises_on_update(update_rc')
         THEN /\ raised' = ResetFailed
              /\ pc' = "crashed"
         ELSE /\ raised' = raised
              /\ pc' = "eligible"
    /\ UNCHANGED <<noop, commit_mergeinfo, record_only_filename, records_file, revisions,
                   loaded, record_only_revisions, revisions_to_merge, mergeinfo_revisions,
                   merged, idx, merge_rc, replayed_as, status, message, commits, exit_code>>
    /\ UNCHANGED <<single, concise, replays, conflict_steps>>
    /\ children' = <<update_argv>>
    /\ removed' = <<>>
    /\ reported' = <<>>
    /\ UNCHANGED <<cl_vars, calls>>

\* The lines `svn mergeinfo --show-revs eligible` prints: 'r<n>', or something else.
RevisionLine(n) == [text |-> "r", number |-> n]
OtherLine == [text |-> "", number |-> 0]

\* The outputs of the query: the eligible revisions in the order svn chose,
\* with or without a line that is not a revision.
MergeinfoOutputs ==
    UNION {{[i \in 1..Len(s) |-> RevisionLine(s[i])],
            <<OtherLine>> \o [i \in 1..Len(s) |-> RevisionLine(s[i])]}
           : s \in DistinctSeqs(Revisions)}

\* get_eligible_revisions: the numbers of the lines matching ^r(\d+)$, in the
\* order of the output.
get_eligible_revisions(svn_output) ==
    LET matching == SelectSeq(svn_output, LAMBDA l : l.text = "r")
    IN  [i \in 1..Len(matching) |-> matching[i].number]

\* The eligibility query, and the dispatch of launch_merge on single and concise.
GetEligibleRevisions ==
    /\ pc = "eligible"
    /\ \E svn_output \in MergeinfoOutputs :
         revisions' = get_eligible_revisions(svn_output)
    /\ IF single /\ concise THEN pc' = "concise" /\ idx' = idx /\ raised' = raised
       ELSE IF single THEN pc' = "one_by_one" /\ idx' = 1 /\ raised' = raised
       ELSE /\ pc' = "crashed"
            /\ idx' = idx
            /\ raised' = NotImplemented
    /\ UNCHANGED <<noop, commit_mergeinfo, record_only_filename, records_file,
                   loaded, record_only_revisions, revisions_to_merge, mergeinfo_revisions,
                   merged, merge_rc, replayed_as, status, message, commits, exit_code>>
    /\ UNCHANGED <<single, concise, update_rc, replays, conflict_steps>>
    /\ children' = <<mergeinfo_argv>>
    /\ removed' = <<>>
    /\ reported' = <<>>
    /\ UNCHANGED <<cl_vars, calls>>

\* A loop that gives up at the first replay that failed.
next_turn_mutant(i, rc, eligible) == IF rc = 0 THEN i + 1 ELSE Len(eligible) + 1

\* `for revision in revisions`: the loop of merge_one_by_one goes to the next
\* revision whatever the replay returned.
next_turn(i, rc, eligible) == i + 1

\* merge_one_by_one: one pass of its loop, or its end and the return of
\* launch_merge.  The record-only set is not passed to is_no_merge_revision.
MergeOneByOne ==
    /\ pc = "one_by_one"
    /\ IF idx <= Len(revisions)
         THEN /\ replayed_as' = IF is_no_merge_revision(revisions[idx], {})
                                  THEN "record-only" ELSE "merge"
              /\ merge_rc' \in ExitCodes
              /\ replays' = Append(replays, Replayed(revisions[idx], replayed_as'))
              /\ idx' = next_turn(idx, merge_rc', revisions)
              /\ UNCHANGED <<pc, exit_code>>
         ELSE /\ pc' = "done"
              /\ exit_code' = 0
              /\ UNCHANGED <<replayed_as, merge_rc, replays, idx>>
    /\ UNCHANGED <<noop, commit_mergeinfo, record_only_filename, records_file, revisions,
                   loaded, record_only_revisions, revisions_to_merge, mergeinfo_revisions,
                   merged, status, message, commits, raised>>
    /\ UNCHANGED <<single, concise, update_rc, conflict_steps>>
    /\ children' \in IF idx <= Len(revisions)
                     THEN replay_children(revisions[idx], replayed_as', TRUE)
                     ELSE {<<>>}
    /\ removed' = <<>>
    /\ reported' = IF idx <= Len(revisions)
                     THEN merge_one_by_one_report(replayed_as', merge_rc')
                     ELSE <<>>
    /\ UNCHANGED <<cl_vars, calls>>

\* The record-only files launch_merge may find: none, or one naming revision 1.
LaunchFiles == {FileAbsent, FileWith(<<1>>)}

InitLaunch ==
    /\ pc = "launch"
    /\ noop = FALSE
    /\ commit_mergeinfo \in BOOLEAN
    /\ record_only_filename = "record_only.txt"
    /\ records_file \in LaunchFiles
    /\ revisions = <<>>
    /\ loaded = {}
    /\ record_only_revisions = {}
    /\ revisions_to_merge = <<>>
    /\ mergeinfo_revisions = {}
    /\ merged = {}
    /\ idx = 0
    /\ merge_rc = 0
    /\ replayed_as = "none"
    /\ status = <<>>
    /\ message = NoMessage
    /\ commits = <<>>
    /\ raised = NoRaise
    /\ exit_code = NoExit
    /\ single \in BOOLEAN
    /\ concise \in BOOLEAN
    /\ update_rc = NoExit
    /\ replays = <<>>
    /\ conflict_steps = <<>>
    /\ children = <<>>
    /\ removed = <<>>
    /\ reported = <<>>
    /\ NoCommitLog
    /\ NoCalls

NextLaunch ==
    \/ RevertPristine
    \/ SecondUpdate
    \/ GetEligibleRevisions
    \/ MergeOneByOne
    \/ Next

SpecLaunch == InitLaunch /\ [][NextLaunch]_vars

----------------------------------------------------------------------------
\* commit_log called on its own, with every shape of argument its callers use:
\* None, a single Revision, a list (the tests) or a set (the batch loop).

RevisionsArgs ==
    {None} \cup {RevisionArg(n) : n \in Revisions}
           \cup {ListArg(s) : s \in DistinctSeqs(Revisions)}

MergeinfoArgs ==
    {None} \cup {ListArg(s) : s \in DistinctSeqs(Revisions)}
           \cup {SetArg(S) : S \in SUBSET Revisions}

\* No run of launch_merge: the functions below are called on their own.
NoRun ==
    /\ pc = "off"
    /\ noop = FALSE
    /\ commit_mergeinfo = FALSE
    /\ record_only_filename = ""
    /\ records_file = FileAbsent
    /\ revisions = <<>>
    /\ loaded = {}
    /\ record_only_revisions = {}
    /\ revisions_to_merge = <<>>
    /\ mergeinfo_revisions = {}
    /\ merged = {}
    /\ idx = 0
    /\ merge_rc = 0
    /\ replayed_as = "none"
    /\ status = <<>>
    /\ message = NoMessage
    /\ commits = <<>>
    /\ raised = NoRaise
    /\ exit_code = NoExit
    /\ single = FALSE
    /\ concise = FALSE
    /\ update_rc = NoExit
    /\ replays = <<>>
    /\ conflict_steps = <<>>
    /\ children = <<>>
    /\ removed = <<>>
    /\ reported = <<>>

InitCommitLog ==
    /\ NoRun
    /\ NoCalls
    /\ cl_pc = "ready"
    /\ cl_revisions \in RevisionsArgs
    /\ cl_mergeinfo_revisions \in MergeinfoArgs
    /\ cl_result = Failed("not called")

CallCommitLog ==
    /\ cl_pc = "ready"
    /\ cl_result' = commit_log(cl_revisions, cl_mergeinfo_revisions)
    /\ cl_pc' = "called"
    /\ UNCHANGED <<cl_revisions, cl_mergeinfo_revisions>>
    /\ UNCHANGED orch_vars
    /\ UNCHANGED calls

NextCommitLog == CallCommitLog

SpecCommitLog == InitCommitLog /\ [][NextCommitLog]_vars

----------------------------------------------------------------------------
\* The replay commands called on their own: svn_merge(revision) and
\* merge_record_only([revision]), with every answer svn may give.

\* `for _ in range(3)` of svn_merge
MaxAttempts == 3

\* IdleMerge.ignore: empty, or one branch-specific file.
IgnoreLists == {<<>>, <<"pom.xml">>}

\* The first line of stderr, as the fragments startswith() tells apart.
NoStderr == <<>>
MixedRevision == <<"svn: E195020", ": Cannot merge into mixed-revision working copy">>
OtherFailure == <<"svn: E160013", ": File not found">>

\* err_line.startswith('svn: E195020')
is_retryable(return_code, err_line) ==
    return_code # 0 /\ err_line # <<>> /\ err_line[1] = "svn: E195020"

\* What one merge command may answer: its exit code and its stderr.
MergeAnswers ==
    {[return_code |-> 0, stderr |-> NoStderr],
     [return_code |-> 1, stderr |-> MixedRevision],
     [return_code |-> 1, stderr |-> OtherFailure],
     [return_code |-> 1, stderr |-> NoStderr]}

\* The svn commands of a replay, each with the answer it got.
Command(name, n, paths, answer) ==
    [name |-> name, revision |-> n, paths |-> paths,
     return_code |-> answer.return_code, stderr |-> answer.stderr]

Answered == [return_code |-> 0, stderr |-> NoStderr]

\* [os.path.join(self.target, x) for x in self.ignore]
ignored_paths(ignore) == [i \in 1..Len(ignore) |-> <<target, ignore[i]>>]

InitReplay ==
    /\ NoRun
    /\ NoCommitLog
    /\ \E fn \in {"svn_merge", "merge_record_only"}, n \in Revisions, ign \in IgnoreLists :
         merge_call = [pc |-> "ready", fn |-> fn, revision |-> n, ignore |-> ign,
                       attempts |-> 0, commands |-> <<>>, return_code |-> 0,
                       reported |-> FALSE, result |-> "none"]
    /\ classify_call = NoCall
    /\ parse_call = NoCall
    /\ resolve_call = NoCall
    /\ revert_call = NoCall
    /\ util_call = NoCall

\* svn_merge: one pass of its loop: the merge command, and the update when
\* the failure is the retryable one.
MergeAttempt ==
    /\ merge_call.pc \in {"ready", "attempt"}
    /\ merge_call.fn = "svn_merge"
    /\ \E answer \in MergeAnswers :
         LET merge == Command("merge", merge_call.revision, <<target>>, answer)
             retry == is_retryable(answer.return_code, answer.stderr)
             update == Command("update", 0, <<target>>, Answered)
         IN  merge_call' =
                 [merge_call EXCEPT
                    !.attempts = @ + 1,
                    !.return_code = answer.return_code,
                    !.commands = IF retry THEN @ \o <<merge, update>> ELSE Append(@, merge),
                    !.pc = IF retry /\ merge_call.attempts + 1 < MaxAttempts
                             THEN "attempt" ELSE "after_loop"]
    /\ UNCHANGED <<classify_call, parse_call, resolve_call, revert_call, util_call>>
    /\ UNCHANGED orch_vars
    /\ UNCHANGED cl_vars

\* svn_merge after its loop: the report of a failure, or revert_files_to_ignore.
MergeReturn ==
    /\ merge_call.pc = "after_loop"
    /\ merge_call' =
         IF merge_call.return_code # 0
           THEN [merge_call EXCEPT !.reported = TRUE, !.result = "False", !.pc = "returned"]
           ELSE [merge_call EXCEPT
                   !.commands =
                       IF merge_call.ignore = <<>> THEN @
                       ELSE Append(@, Command("revert", 0,
                                              ignored_paths(merge_call.ignore), Answered)),
                   !.result = "True",
                   !.pc = "returned"]
    /\ UNCHANGED <<classify_call, parse_call, resolve_call, revert_call, util_call>>
    /\ UNCHANGED orch_vars
    /\ UNCHANGED cl_vars

\* merge_record_only: one command, whose exit code is returned.
MergeRecordOnly ==
    /\ merge_call.pc = "ready"
    /\ merge_call.fn = "merge_record_only"
    /\ \E answer \in MergeAnswers :
         merge_call' =
             [merge_call EXCEPT
                !.attempts = 1,
                !.return_code = answer.return_code,
                !.commands = <<Command("merge --record-only", merge_call.revision,
                                       <<target>>, answer)>>,
                !.result = IF answer.return_code = 0 THEN "0" ELSE "nonzero",
                !.pc = "returned"]
    /\ UNCHANGED <<classify_call, parse_call, resolve_call, revert_call, util_call>>
    /\ UNCHANGED orch_vars
    /\ UNCHANGED cl_vars

NextReplay ==
    \/ MergeAttempt
    \/ MergeReturn
    \/ MergeRecordOnly

SpecReplay == InitReplay /\ [][NextReplay]_vars

----------------------------------------------------------------------------
\* is_no_merge_revision called on its own, on two objects whose pattern sets
\* are included one in the other.

\* The patterns no_merge_patterns is drawn from: two of the defaults, a
\* pattern of ordinary messages and the empty string.
PatternPool ==
    {<<"NO_MERGE">>, <<"NO", " ", "MERGE">>, <<"log message for revision", " ">>, <<>>}

InitClassifier ==
    /\ NoRun
    /\ NoCommitLog
    /\ merge_call = NoCall
    /\ \E n \in Revisions, ro \in SUBSET Revisions, Q \in SUBSET PatternPool :
         \E P \in SUBSET Q :
            classify_call = [pc |-> "ready", revision |-> n, record_only |-> ro,
                             fewer |-> P, more |-> Q,
                             under_fewer |-> FALSE, under_more |-> FALSE,
                             fewer_after |-> {}, more_after |-> {}, record_only_after |-> {}]
    /\ parse_call = NoCall
    /\ resolve_call = NoCall
    /\ revert_call = NoCall
    /\ util_call = NoCall

\* The two calls: is_no_merge_revision reads no_merge_patterns and the
\* record-only set and assigns neither.
ClassifyCall ==
    /\ classify_call.pc = "ready"
    /\ classify_call' =
         [classify_call EXCEPT
            !.under_fewer = no_merge_under(classify_call.fewer, classify_call.revision,
                                           classify_call.record_only),
            !.under_more = no_merge_under(classify_call.more, classify_call.revision,
                                          classify_call.record_only),
            !.fewer_after = classify_call.fewer,
            !.more_after = classify_call.more,
            !.record_only_after = classify_call.record_only,
            !.pc = "called"]
    /\ UNCHANGED <<merge_call, parse_call, resolve_call, revert_call, util_call>>
    /\ UNCHANGED orch_vars
    /\ UNCHANGED cl_vars

NextClassifier == ClassifyCall

SpecClassifier == InitClassifier /\ [][NextClassifier]_vars

----------------------------------------------------------------------------
\* Revision._get_msg called on its own.  A text is the sequence of its
\* lines, the empty string being the empty sequence.

NoData == DataLine("", <<>>)

\* The marker line '-- IDLEMERGE DATA --', an empty line, the subject line of
\* a commit message, a line of its IDLE-DATA block and a line of a user.
MarkerLine == [kind |-> "marker", subject |-> NoSubject, data |-> NoData]
EmptyLine == [kind |-> "empty", subject |-> NoSubject, data |-> NoData]
SubjectLine(subject) == [kind |-> "subject", subject |-> subject, data |-> NoData]
BlockLine(l) == [kind |-> "data", subject |-> NoSubject, data |-> l]
UserLine(n) ==
    [kind |-> "user",
     subject |-> [form |-> "user", source |-> "", number |-> 0, msg |-> Msg(n),
                  revs |-> <<>>, target |-> ""],
     data |-> NoData]

\* '%s\n%s' % (message, metacomment): the text of a message commit_log built.
message_text(m) ==
    <<SubjectLine(m.subject), MarkerLine>> \o [i \in 1..Len(m.data) |-> BlockLine(m.data[i])]

\* Where r'(^|\n)-- IDLEMERGE DATA --\n' first matches: the first marker line
\* that a newline follows, 0 when there is none.
first_match(full_msg) ==
    LET at == {i \in 1..(Len(full_msg) - 1) : full_msg[i].kind = "marker"}
    IN  IF at = {} THEN 0 ELSE CHOOSE i \in at : \A j \in at : i <= j

\* re.split(r'(^|\n)-- IDLEMERGE DATA --\n', full_msg, 1): the text before the
\* match, the text the group captured ('' or '\n') and the text after it.
re_split(full_msg) ==
    LET i == first_match(full_msg)
    IN  IF i = 0 THEN <<full_msg>>
        ELSE <<SubSeq(full_msg, 1, i - 1),
               IF i = 1 THEN <<>> ELSE <<EmptyLine, EmptyLine>>,
               SubSeq(full_msg, i + 1, Len(full_msg))>>

\* _get_msg: self._msg = match[0]; self._idle_data = match[1] if len(match) > 1 else ''
get_msg(full_msg) ==
    LET match == re_split(full_msg)
    IN  [msg |-> match[1], idle_data |-> IF Len(match) > 1 THEN match[2] ELSE <<>>]

\* `pattern in comment` for a comment of several lines.
in_comment(pattern, comment) ==
    \E i \in DOMAIN comment : contains(pattern, comment[i].subject.msg)

\* The arguments commit_log is given to build the messages to parse.
BuildArgs ==
    {a \in RevisionsArgs \X {ListArg(s) : s \in DistinctSeqs(Revisions)} :
        /\ Range(a[1].items) \cap Range(a[2].items) = {}
        /\ Range(a[1].items) \cup Range(a[2].items) # {}}

\* Messages commit_log did not build: without marker, starting with it, with
\* two of them, ending with it.
OtherMessages ==
    {<<UserLine(1)>>,
     <<UserLine(2)>>,
     <<MarkerLine, BlockLine(DataLine("REVISIONS", <<1>>))>>,
     <<UserLine(1), MarkerLine, UserLine(2)>>,
     <<UserLine(1), MarkerLine, BlockLine(RevLine(2)), MarkerLine, BlockLine(RevLine(3))>>,
     <<UserLine(1), MarkerLine>>}

Unparsed(full_msg, built, revs, mergeinfo) ==
    [pc |-> "ready", full_msg |-> full_msg, built |-> built, revisions |-> revs,
     mergeinfo_revisions |-> mergeinfo, msg |-> <<>>, idle_data |-> <<>>,
     no_merge |-> FALSE]

InitParse ==
    /\ NoRun
    /\ NoCommitLog
    /\ merge_call = NoCall
    /\ classify_call = NoCall
    /\ \/ \E a \in BuildArgs :
            parse_call = Unparsed(message_text(commit_log(a[1], a[2]).message), TRUE,
                                  a[1], a[2])
       \/ \E full_msg \in OtherMessages :
            parse_call = Unparsed(full_msg, FALSE, None, None)
    /\ resolve_call = NoCall
    /\ revert_call = NoCall
    /\ util_call = NoCall

\* Revision.msg and Revision.idle_data of a revision with this log message,
\* and the pattern part of is_no_merge_revision on it.
ParseCall ==
    /\ parse_call.pc = "ready"
    /\ LET parsed == get_msg(parse_call.full_msg)
       IN  parse_call' =
             [parse_call EXCEPT
                !.msg = parsed.msg,
                !.idle_data = parsed.idle_data,
                !.no_merge = \E pattern \in no_merge_patterns :
                                 in_comment(pattern, parsed.msg),
                !.pc = "parsed"]
    /\ UNCHANGED <<merge_call, classify_call, resolve_call, revert_call, util_call>>
    /\ UNCHANGED orch_vars
    /\ UNCHANGED cl_vars

NextParse == ParseCall

SpecParse == InitParse /\ [][NextParse]_vars

----------------------------------------------------------------------------
\* resolve_conflict called on its own, on one conflicted status entry.

\* The <tree-conflict> element of `svn info --xml <victim>`; versions tells
\* whether it has <version> children: an element without children is false.
NoTreeConflict ==
    [present |-> FALSE, action |-> "", reason |-> "", kind |-> "", versions |-> FALSE]
TreeConflict(action, reason, kind, versions) ==
    [present |-> TRUE, action |-> action, reason |-> reason, kind |-> kind,
     versions |-> versions]

TreeConflicts ==
    {NoTreeConflict}
        \cup {TreeConflict(a, r, k, v) :
                a \in {"add", "delete", "edit"}, r \in {"add", "delete", "edit"},
                k \in {"file", "dir", "none"}, v \in BOOLEAN}

\* get_remote_md5: None when `svn cat` fails, the digest of the content otherwise.
NoDigest == ""
Digests == {NoDigest, "0cc175b9", "92eb5ffe"}

victim_path == <<"a.txt">>
source_depot_path == <<"^/", "foo/stable/a.txt">>

InitResolve ==
    /\ NoRun
    /\ NoCommitLog
    /\ merge_call = NoCall
    /\ classify_call = NoCall
    /\ parse_call = NoCall
    /\ \E n \in Revisions, tc \in TreeConflicts :
         resolve_call = [pc |-> "ready", revision |-> n, tree_conflict |-> tc,
                         source_md5 |-> NoDigest, victim_md5 |-> NoDigest,
                         commands |-> <<>>, unresolved |-> FALSE]
    /\ revert_call = NoCall
    /\ util_call = NoCall

\* `if not victim_md5 or victim_md5 != source_md5: return True`, with trust in
\* any two digests: what C19 is tested against.
digests_differ_mutant(source_md5, victim_md5) == FALSE
\* `if not victim_md5 or victim_md5 != source_md5: return True`
digests_differ(source_md5, victim_md5) ==
    victim_md5 = NoDigest \/ victim_md5 # source_md5

\* resolve_double_add: the commands it runs and what it returns, for the
\* digests and the exit code svn answers with.
resolve_double_add(n, tc, source_md5, victim_md5, rc) ==
    LET cat_source == Command("cat", n, source_depot_path, Answered)
        cat_victim == Command("cat", 0, victim_path, Answered)
        resolved == Command("resolved", 0, victim_path,
                            [return_code |-> rc, stderr |-> NoStderr])
    IN  IF tc.kind # "file"
          THEN [commands |-> <<>>, unresolved |-> TRUE]
        ELSE IF source_md5 = NoDigest
          THEN [commands |-> <<cat_source>>, unresolved |-> TRUE]
        ELSE IF digests_differ(source_md5, victim_md5)
          THEN [commands |-> <<cat_source, cat_victim>>, unresolved |-> TRUE]
        ELSE [commands |-> <<cat_source, cat_victim, resolved>>, unresolved |-> rc # 0]

\* resolve_tree_conflict
resolve_tree_conflict(n, tc, source_md5, victim_md5, rc) ==
    IF tc.action = "delete" /\ tc.reason = "delete"
      THEN [commands |-> <<Command("resolved", 0, victim_path,
                                   [return_code |-> rc, stderr |-> NoStderr])>>,
            unresolved |-> rc # 0]
    ELSE IF tc.action = "add" /\ tc.reason = "add"
      THEN resolve_double_add(n, tc, source_md5, victim_md5, rc)
    ELSE [commands |-> <<>>, unresolved |-> TRUE]

\* resolve_conflict: `svn info` on the victim, then the tree conflict if any.
ResolveConflict ==
    /\ resolve_call.pc = "ready"
    /\ \E source_md5 \in Digests, victim_md5 \in Digests, rc \in ExitCodes :
         LET tc == resolve_call.tree_conflict
             info == Command("info", 0, victim_path, Answered)
             done == IF tc.present /\ tc.versions
                       THEN resolve_tree_conflict(resolve_call.revision, tc,
                                                  source_md5, victim_md5, rc)
                       ELSE [commands |-> <<>>, unresolved |-> TRUE]
         IN  resolve_call' =
               [resolve_call EXCEPT
                  !.source_md5 = source_md5,
                  !.victim_md5 = victim_md5,
                  !.commands = <<info>> \o done.commands,
                  !.unresolved = done.unresolved,
                  !.pc = "returned"]
    /\ UNCHANGED <<merge_call, classify_call, parse_call, revert_call, util_call>>
    /\ UNCHANGED orch_vars
    /\ UNCHANGED cl_vars

NextResolve == ResolveConflict

SpecResolve == InitResolve /\ [][NextResolve]_vars

----------------------------------------------------------------------------
\* revert_spurious_merges called on its own.  A path is the sequence of its
\* components; a path of the repository starts with "/", a path of the
\* working copy is relative to the target.

\* A branch as --source names it: relative to the repository root
\* ('^/foo/stable') or by its full URL ('https://svn/repo/foo/stable').
Branch(form, path) == [form |-> form, path |-> path]
StableBranch == Branch("relative", <<"/", "foo", "stable">>)
TrunkBranch == Branch("relative", <<"/", "foo", "trunk">>)
StableUrl == Branch("url", <<"/", "foo", "stable">>)

\* Revision.original_branch: the source, or a sibling branch of its project.
OriginalBranches == {StableBranch, TrunkBranch, StableUrl}

\* The paths a log entry may list.
LogPaths ==
    {<<"/", "foo", "stable">>,
     <<"/", "foo", "stable", "a.txt">>,
     <<"/", "foo", "stable", "dir", "b.txt">>,
     <<"/", "foo", "trunk", "a.txt">>}

\* The paths `svn status` may list, the unversioned one last.
root_path == <<target>>
unversioned_path == <<"build.log">>
StatusPaths == <<root_path, <<"a.txt">>, <<"dir">>, <<"dir", "b.txt">>, unversioned_path>>

\* path.startswith(source) for source = <branch path> + '/'
startswith(path, branch_path) ==
    /\ Len(path) > Len(branch_path)
    /\ SubSeq(path, 1, Len(branch_path)) = branch_path

\* get_source_sub_path: the regular expression r'\^?(/.*?)/?(?:@.*)?$' matches
\* a branch relative to the repository root, whose path and '/' are then
\* stripped from the paths that start with them; any other path is returned
\* as it is, and so is every path when the branch is a full URL.
get_source_sub_path(path, original_path) ==
    IF original_path.form = "relative" /\ startswith(path, original_path.path)
      THEN SubSeq(path, Len(original_path.path) + 1, Len(path))
      ELSE path

\* The target IdleMerge is built with: '.', the default and what main leaves,
\* or the path of a working copy.
Targets == {target, "wc"}

\* The characters of a target.
characters(string) == IF string = "." THEN {"."} ELSE {"w", "c"}

\* merged_paths = set(self.target): a set built from a string is the set of
\* its characters, each one a path of its own.
merged_paths(string) == {<<c>> : c \in characters(string)}

\* The path `svn status <target>` prints for a path of the working copy.
in_target(string, path) ==
    IF string = "." THEN path
    ELSE IF path = root_path THEN <<string>>
    ELSE <<string>> \o path

\* The status entries of the paths of a set, in the order of StatusPaths.
status_of(string, paths) ==
    LET listed == SelectSeq(StatusPaths, LAMBDA q : q \in paths)
    IN  [i \in 1..Len(listed) |->
            IF listed[i] = unversioned_path
              THEN Entry(in_target(string, listed[i]), "unversioned", "none", FALSE)
            ELSE IF listed[i] = root_path
              THEN Entry(in_target(string, listed[i]), "normal", "modified", FALSE)
            ELSE Entry(in_target(string, listed[i]), "modified", "none", FALSE)]

InitRevert ==
    /\ NoRun
    /\ NoCommitLog
    /\ merge_call = NoCall
    /\ classify_call = NoCall
    /\ parse_call = NoCall
    /\ resolve_call = NoCall
    /\ util_call = NoCall
    /\ \E n \in Revisions, touched \in SUBSET LogPaths, ob \in OriginalBranches,
          earlier \in SUBSET {<<"dir">>}, t \in Targets :
         revert_call = [pc |-> "ready", revision |-> n, paths |-> touched,
                        original_branch |-> ob,
                        target |-> t,
                        merged_paths |-> merged_paths(t),
                        valid_entries |-> merged_paths(t) \cup earlier,
                        status |-> <<>>, no_revert |-> {}, to_revert |-> <<>>,
                        commands |-> <<>>]

\* revert_spurious_merges: the paths kept, the fresh status, the paths reverted.
RevertSpurious ==
    /\ revert_call.pc = "ready"
    /\ \E listed \in SUBSET Range(StatusPaths) :
         LET st == status_of(revert_call.target, listed)
             no_revert == revert_call.valid_entries
                 \cup {get_source_sub_path(q, revert_call.original_branch)
                         : q \in revert_call.paths}
             kept(e) == e.item = "unversionned" \/ e.path \in no_revert
             spurious == SelectSeq(st, LAMBDA e : ~kept(e))
             to_revert == [i \in 1..Len(spurious) |-> spurious[i].path]
         IN  revert_call' =
               [revert_call EXCEPT
                  !.status = st,
                  !.no_revert = no_revert,
                  !.to_revert = to_revert,
                  !.commands = IF to_revert = <<>> THEN <<>>
                               ELSE <<Command("revert", 0, to_revert, Answered)>>,
                  !.pc = "returned"]
    /\ UNCHANGED <<merge_call, classify_call, parse_call, resolve_call, util_call>>
    /\ UNCHANGED orch_vars
    /\ UNCHANGED cl_vars

NextRevert == RevertSpurious

SpecRevert == InitRevert /\ [][NextRevert]_vars

----------------------------------------------------------------------------
\* The helper functions called on their own: none of the functions above is
\* being called.
NoNamedCalls ==
    /\ merge_call = NoCall
    /\ classify_call = NoCall
    /\ parse_call = NoCall
    /\ resolve_call = NoCall
    /\ revert_call = NoCall

named_calls == <<merge_call, classify_call, parse_call, resolve_call, revert_call>>

----------------------------------------------------------------------------
\* execute_command called twice on the same command, with two passwords.

\* '%%PASSWORD%%', the argument SvnWrapper.run writes in place of the password.
PLACEHOLDER == "%%PASSWORD%%"

\* The password argument of execute_command: None, or a string.
NoPassword == [none |-> TRUE, text |-> ""]
Password(text) == [none |-> FALSE, text |-> text]
PasswordArgs == {NoPassword, Password(""), Password("s3cret"), Password("hunter2")}

\* SvnWrapper.auth: None, or a user name and a password that may be empty.
NoAuth == [present |-> FALSE, username |-> "", password |-> ""]
Auth(username, password) ==
    [present |-> TRUE, username |-> username, password |-> password]
Auths == {NoAuth, Auth("alice", ""), Auth("alice", "s3cret"), Auth(PLACEHOLDER, "s3cret")}

\* SvnWrapper.run: svn_cmd as it is handed to execute_command.
svn_cmd(auth, options) ==
    <<"svn", "--non-interactive">>
      \o (IF auth.present
            THEN <<"--username", auth.username>>
                   \o (IF auth.password # "" THEN <<"--password", PLACEHOLDER>> ELSE <<>>)
            ELSE <<>>)
      \o options

\* The commands execute_command is given: those of SvnWrapper.run, and the
\* one of Conflict.status.
ExecutedCommands ==
    {svn_cmd(auth, options) : auth \in Auths,
                              options \in {<<"status", "--xml", target>>, <<"update", target>>}}
      \cup {conflict_status_argv}

\* ' '.join(command)
join(command) ==
    [i \in 1..(IF command = <<>> THEN 0 ELSE 2 * Len(command) - 1) |->
        IF i % 2 = 1 THEN command[(i + 1) \div 2] ELSE " "]

\* The line printed from the command spawned: what C23 is tested against.
debug_line_mutant(command, cmd) ==
    [tag |-> "[DEBUG] executing command", text |-> join(cmd)]
\* '[DEBUG] executing command %r.' % ' '.join(command): the line is made from
\* the command as it was given, not from the one spawned.
debug_line(command, cmd) ==
    [tag |-> "[DEBUG] executing command", text |-> join(command)]

\* cmd = [(x if x != '%%PASSWORD%%' else password) for x in command]
substituted(command, password) ==
    IF ~password.none
      THEN [i \in DOMAIN command |->
              IF command[i] # PLACEHOLDER THEN command[i] ELSE password.text]
      ELSE command

\* execute_command: what it writes to stdout before the spawn when verbose,
\* and the argument vector of the child process.
execute_command(command, verbose, password) ==
    LET cmd == substituted(command, password)
    IN  [debug |-> IF verbose THEN <<debug_line(command, cmd)>> ELSE <<>>,
         argv |-> cmd]

InitExecute ==
    /\ NoRun
    /\ NoCommitLog
    /\ NoNamedCalls
    /\ \E command \in ExecutedCommands, verbose \in BOOLEAN,
          p1 \in PasswordArgs, p2 \in PasswordArgs :
         util_call = [pc |-> "ready", fn |-> "execute_command", command |-> command,
                      verbose |-> verbose, passwords |-> <<p1, p2>>,
                      runs |-> <<>>]

\* The two runs, which differ by the password only.
ExecuteCommand ==
    /\ util_call.pc = "ready"
    /\ util_call.fn = "execute_command"
    /\ util_call' =
         [util_call EXCEPT
            !.runs = [i \in 1..2 |-> execute_command(util_call.command,
                                                     util_call.verbose,
                                                     util_call.passwords[i])],
            !.pc = "returned"]
    /\ UNCHANGED named_calls
    /\ UNCHANGED orch_vars
    /\ UNCHANGED cl_vars

NextExecute == ExecuteCommand

SpecExecute == InitExecute /\ [][NextExecute]_vars

----------------------------------------------------------------------------
\* The child processes of one step of the run, from their creation to the
\* wait that reaps them: execute_command with handle_process set, and
\* get_remote_md5, which gets the process back and reads its output itself.

\* The most lines a child writes before it closes its output.
MaxLines == 2

\* The commands of one step of the run, in the order the step spawns them.
StepChildren ==
    UNION {replay_children(1, how, first_time) :
             how \in {"merge", "record-only"}, first_time \in BOOLEAN}
      \cup resolve_children(1)
      \cup revert_spurious_children(1, TRUE)
      \cup {<<revert_all_argv, update_argv, status_argv>>, <<mergeinfo_argv>>,
            <<commit_argv>>, <<conflict_status_argv>>}

\* get_remote_md5 is the caller that passes handle_process=False: `svn cat`.
handle_process(argv) == ~(Len(argv) >= 3 /\ argv[3] = "cat")

\* A caller of the streamed command that returns without waiting for it.
wait_mutant(alive, process, handled) == IF handled THEN alive \ {process} ELSE alive

\* process.wait() of execute_command, svn_cat.wait() of get_remote_md5: the
\* child is reaped once its output has been read to the end.
wait(alive, process, handled) == alive \ {process}

InitChildren ==
    /\ NoRun
    /\ NoCommitLog
    /\ NoNamedCalls
    /\ \E commands \in StepChildren :
         util_call = [pc |-> "call", fn |-> "children", commands |-> commands,
                      i |-> 1, alive |-> {}, lines |-> 0, return_code |-> NoExit]

\* subprocess.Popen of the next command of the step.
Popen ==
    /\ util_call.fn = "children"
    /\ util_call.pc = "call"
    /\ util_call.i <= Len(util_call.commands)
    /\ \E lines \in 0..MaxLines :
         util_call' = [util_call EXCEPT !.alive = @ \cup {util_call.i},
                                        !.lines = lines,
                                        !.pc = "reading"]
    /\ UNCHANGED named_calls
    /\ UNCHANGED orch_vars
    /\ UNCHANGED cl_vars

\* One line read from the child: stream.readline() in the select loop, or
\* one turn of `for data in svn_cat.stdout`.
ReadLine ==
    /\ util_call.fn = "children"
    /\ util_call.pc = "reading"
    /\ util_call.lines > 0
    /\ util_call' = [util_call EXCEPT !.lines = @ - 1]
    /\ UNCHANGED named_calls
    /\ UNCHANGED orch_vars
    /\ UNCHANGED cl_vars

\* The end of the output, the wait and the return to the step.
Wait ==
    /\ util_call.fn = "children"
    /\ util_call.pc = "reading"
    /\ util_call.lines = 0
    /\ \E return_code \in ExitCodes :
         util_call' =
           [util_call EXCEPT
              !.alive = wait(@, util_call.i,
                             handle_process(util_call.commands[util_call.i])),
              !.return_code = return_code,
              !.i = @ + 1,
              !.pc = IF util_call.i = Len(util_call.commands) THEN "returned"
                     ELSE "call"]
    /\ UNCHANGED named_calls
    /\ UNCHANGED orch_vars
    /\ UNCHANGED cl_vars

NextChildren ==
    \/ Popen
    \/ ReadLine
    \/ Wait

SpecChildren == InitChildren /\ [][NextChildren]_vars

----------------------------------------------------------------------------
\* Revision._get_original_branch called on its own.  A text is a sequence of
\* tokens: '^' and '/' are tokens of their own, and a name is one token or
\* several ('stable2' is 'stable' followed by '2'), so that the prefix of a
\* text may end inside a name.

\* The tokens made of word characters only (what \w+ matches).
Words == {"proj", "2", "trunk", "branches", "stable", "dev", "tags", "rel", "other"}

ProjectRoot == <<"^", "/", "proj">>

\* Revision.branch, the configured source: a branch of the project, its trunk,
\* a tag, and the trunk named by its URL.
SourceBranches ==
    {ProjectRoot \o <<"/", "branches", "/", "stable">>,
     ProjectRoot \o <<"/", "trunk">>,
     ProjectRoot \o <<"/", "tags", "/", "rel">>,
     <<"http://host", "/", "proj", "/", "trunk">>}

\* LogPath.path of the paths a revision touched.
TouchedPaths ==
    {<<"/", "proj", "/", "branches", "/", "stable", "/", "a.txt">>,
     <<"/", "proj", "/", "branches", "/", "stable", "2", "/", "a.txt">>,
     <<"/", "proj", "/", "branches", "/", "dev", "/", "a.txt">>,
     <<"/", "proj", "/", "trunk", "/", "a.txt">>,
     <<"/", "proj", "/", "tags", "/", "rel", "/", "a.txt">>,
     <<"/", "proj", "2", "/", "trunk", "/", "a.txt">>,
     <<"/", "other", "/", "trunk", "/", "a.txt">>}

\* The most paths of a log entry.
MaxPaths == 2

\* str.startswith
str_startswith(text, prefix) ==
    /\ Len(prefix) <= Len(text)
    /\ SubSeq(text, 1, Len(prefix)) = prefix

\* No match of a regular expression, and the text of a group that matched.
NoMatch == <<>>

\* The last token of the longest \w+ that starts at token i, i - 1 if none.
word_run_end(text, i) ==
    LET ends == {e \in i..Len(text) : \A j \in i..e : text[j] \in Words}
    IN  IF ends = {} THEN i - 1
        ELSE CHOOSE e \in ends : \A f \in ends : f <= e

\* Where '/trunk' or '/branches/\w+' ends when it is matched at token k, 0 if
\* it does not match there.
branch_name_end(text, k) ==
    IF k + 1 <= Len(text) /\ text[k] = "/" /\ text[k + 1] = "trunk" THEN k + 1
    ELSE IF /\ k + 3 <= Len(text)
            /\ text[k] = "/" /\ text[k + 1] = "branches" /\ text[k + 2] = "/"
            /\ text[k + 3] \in Words
      THEN word_run_end(text, k + 3)
    ELSE 0

\* re.match(r'(\^.*)/(?:trunk|branches/\w+)$', branch).group(1): the greedy
\* '.*' takes the longest group that leaves a match to the end of the text.
match_branch(branch) ==
    LET starts == {k \in 2..Len(branch) :
                     branch[1] = "^" /\ branch_name_end(branch, k) = Len(branch)}
    IN  IF starts = {} THEN NoMatch
        ELSE SubSeq(branch, 1, (CHOOSE k \in starts : \A j \in starts : j <= k) - 1)

\* re.match(r'(\^/.*(?:/trunk|/branches/\w+))(?:/|$)', potential_path).group(1)
match_potential_path(path) ==
    LET followed(e) == e = Len(path) \/ path[e + 1] = "/"
        starts == {k \in 3..Len(path) :
                     /\ path[1] = "^" /\ path[2] = "/"
                     /\ branch_name_end(path, k) > 0
                     /\ followed(branch_name_end(path, k))}
    IN  IF starts = {} THEN NoMatch
        ELSE SubSeq(path, 1, branch_name_end(path,
                                 CHOOSE k \in starts : \A j \in starts : j <= k))

\* The loop over the paths of the log entry, from path i on: the branch as
\* soon as a path starts with it, else the last path that starts with the
\* project path ('' when there is none).
RECURSIVE potential_path(_, _, _, _, _)
potential_path(branch, project_path, paths, i, potential) ==
    IF i > Len(paths) THEN potential
    ELSE LET this_path == <<"^">> \o paths[i]
         IN  IF ~str_startswith(this_path, <<"^", "/">>)
               THEN potential_path(branch, project_path, paths, i + 1, potential)
             ELSE IF str_startswith(this_path, branch) THEN branch
             ELSE IF str_startswith(this_path, project_path)
               THEN potential_path(branch, project_path, paths, i + 1, this_path)
             ELSE potential_path(branch, project_path, paths, i + 1, potential)

\* Revision._get_original_branch
get_original_branch(branch, paths) ==
    LET project_path == match_branch(branch)
    IN  IF project_path = NoMatch THEN branch
        ELSE LET potential == potential_path(branch, project_path, paths, 1, <<>>)
             IN  IF potential = branch \/ potential = <<>> THEN branch
                 ELSE IF match_potential_path(potential) = NoMatch THEN branch
                 ELSE match_potential_path(potential)

InitOriginalBranch ==
    /\ NoRun
    /\ NoCommitLog
    /\ NoNamedCalls
    /\ \E branch \in SourceBranches, n \in 0..MaxPaths :
         \E paths \in [1..n -> TouchedPaths] :
           util_call = [pc |-> "ready", fn |-> "original_branch", branch |-> branch,
                        paths |-> paths, result |-> NoMatch]

\* Revision.original_branch read for the first time.
OriginalBranch ==
    /\ util_call.fn = "original_branch"
    /\ util_call.pc = "ready"
    /\ util_call' = [util_call EXCEPT
                       !.result = get_original_branch(util_call.branch, util_call.paths),
                       !.pc = "returned"]
    /\ UNCHANGED named_calls
    /\ UNCHANGED orch_vars
    /\ UNCHANGED cl_vars

NextOriginalBranch == OriginalBranch

SpecOriginalBranch == InitOriginalBranch /\ [][NextOriginalBranch]_vars

----------------------------------------------------------------------------
\* A Revision object: its number, the log entry loaded for it and the
\* attributes it caches, read and re-assigned in any order.

\* None, for the cached attributes (every value cached is a non-empty text
\* or list, except the IDLE-DATA block, which is never tested against None).
NotCached == <<>>

\* No log entry loaded (self._xml is None); a loaded one is named by its number.
NoXml == 0

\* Revision.branch of the object.
RevisionBranch == ProjectRoot \o <<"/", "branches", "/", "stable">>

\* The <msg> of the log entry of revision n: even revisions are automatic
\* merges, with an IDLE-DATA block.
FullMsg(n) ==
    IF n % 2 = 0 THEN <<UserLine(n), MarkerLine, BlockLine(RevLine(n - 1))>>
    ELSE <<UserLine(n)>>

\* The <paths> of the log entry of revision n: odd revisions touch the branch,
\* even ones the trunk.
PathsOf(n) ==
    IF n % 2 = 0 THEN <<<<"/", "proj", "/", "trunk", "/", "a.txt">>>>
    ELSE <<<<"/", "proj", "/", "branches", "/", "stable", "/", "a.txt">>>>

\* Revision.__init__ with a number and no xml
NewRevision(n) ==
    [number |-> n, xml |-> NoXml, author |-> NotCached, date |-> NotCached,
     msg |-> NotCached, full_msg |-> NotCached, idle_data |-> NotCached,
     paths |-> NotCached, original_branch |-> NotCached]

\* Revision._delete_properties
delete_properties(r) ==
    [r EXCEPT !.xml = NoXml, !.author = NotCached, !.date = NotCached,
              !.msg = NotCached]

\* Revision._get_log: the log entry of the current number.
get_log(r) == [delete_properties(r) EXCEPT !.xml = r.number]

\* Revision.xml_element: the object once the property has been read.
xml_element(r) == IF r.xml = NoXml THEN get_log(r) ELSE r

\* Revision.number = revision_number
set_number(r, revision_number) ==
    IF revision_number # r.number
      THEN [delete_properties(r) EXCEPT !.number = revision_number]
      ELSE r

\* Revision._get_msg: the object once the message has been split.
Revision_get_msg(r) ==
    LET loaded_r == xml_element(r)
        full_msg == FullMsg(loaded_r.xml)
    IN  [loaded_r EXCEPT !.full_msg = full_msg,
                         !.msg = get_msg(full_msg).msg,
                         !.idle_data = get_msg(full_msg).idle_data]

\* Revision.paths: the object once the property has been read.
Revision_paths(r) ==
    IF r.paths = NotCached
      THEN [xml_element(r) EXCEPT !.paths = PathsOf(xml_element(r).xml)]
      ELSE r

\* The attributes of a Revision that are read.
Attributes == {"author", "date", "msg", "idle_data", "paths", "original_branch"}

\* The object after the property `attribute` has been read.
read(r, attribute) ==
    CASE attribute = "author" ->
           IF r.author = NotCached
             THEN [xml_element(r) EXCEPT !.author = Author(xml_element(r).xml)]
             ELSE r
      [] attribute = "date" ->
           IF r.date = NotCached
             THEN [xml_element(r) EXCEPT !.date = Date(xml_element(r).xml)]
             ELSE r
      [] attribute \in {"msg", "idle_data"} ->
           IF r.full_msg = NotCached THEN Revision_get_msg(r) ELSE r
      [] attribute = "paths" -> Revision_paths(r)
      [] attribute = "original_branch" ->
           IF r.original_branch = NotCached
             THEN [Revision_paths(r) EXCEPT
                     !.original_branch =
                        get_original_branch(RevisionBranch, Revision_paths(r).paths)]
             ELSE r

\* No attribute read yet, and the value a read returned.
NoRead == [attribute |-> "none", value |-> NotCached]
Read(attribute, value) == [attribute |-> attribute, value |-> value]

InitRevision ==
    /\ NoRun
    /\ NoCommitLog
    /\ NoNamedCalls
    /\ \E n \in Revisions :
         util_call = [pc |-> "built", fn |-> "Revision", revision |-> NewRevision(n),
                      reassigned |-> FALSE, last |-> NoRead]

\* One attribute is read.
ReadAttribute ==
    /\ util_call.fn = "Revision"
    /\ \E attribute \in Attributes :
         LET r == read(util_call.revision, attribute)
         IN  util_call' = [util_call EXCEPT !.revision = r,
                                            !.last = Read(attribute, r[attribute]),
                                            !.pc = "read"]
    /\ UNCHANGED named_calls
    /\ UNCHANGED orch_vars
    /\ UNCHANGED cl_vars

\* The number is assigned.
SetNumber ==
    /\ util_call.fn = "Revision"
    /\ \E n \in Revisions :
         util_call' = [util_call EXCEPT
                         !.revision = set_number(@, n),
                         !.reassigned = @ \/ n # util_call.revision.number,
                         !.last = NoRead,
                         !.pc = "assigned"]
    /\ UNCHANGED named_calls
    /\ UNCHANGED orch_vars
    /\ UNCHANGED cl_vars

NextRevision ==
    \/ ReadAttribute
    \/ SetNumber

SpecRevision == InitRevision /\ [][NextRevision]_vars

----------------------------------------------------------------------------
\* The record-only file as text: save_record_only_revisions followed by
\* load_record_only_revisions.  A text is a sequence of tokens: the decimal
\* numbers, ',' and the end of line.

Newline == "\n"
Whitespace == {Newline, " "}

\* The revision numbers saved: those of the run, and one of two digits.
SavedNumbers == Revisions \cup {12}

\* The record-only file on disk.
NoTextFile == [exists |-> FALSE, text |-> <<>>]
TextFile(text) == [exists |-> TRUE, text |-> text]

\* separator.join([str(n) for n in numbers])
joined(separator, numbers) ==
    [i \in 1..(IF numbers = <<>> THEN 0 ELSE 2 * Len(numbers) - 1) |->
        IF i % 2 = 1 THEN ToString(numbers[(i + 1) \div 2]) ELSE separator]

\* The line written without the sort: what C24 is tested against.
records_line_mutant(revs) == joined(",", set_iter(revs)) \o <<Newline>>
\* print >> records_file, revisions_as_string(revisions, ',')
records_line(revs) == joined(",", revisions_as_string(set_iter(revs))) \o <<Newline>>

\* save_record_only_revisions on the text file: open(..., 'w') and one line.
save_text(filename, file, revs) ==
    IF filename = "" THEN file ELSE TextFile(records_line(revs))

\* `for line in records_file`: the lines of a text, each with its end of line.
RECURSIVE file_lines(_)
file_lines(text) ==
    IF text = <<>> THEN <<>>
    ELSE IF \E i \in DOMAIN text : text[i] = Newline
      THEN LET i == CHOOSE k \in DOMAIN text :
                      text[k] = Newline /\ \A j \in 1..(k - 1) : text[j] # Newline
           IN  <<SubSeq(text, 1, i)>> \o file_lines(SubSeq(text, i + 1, Len(text)))
    ELSE <<text>>

\* line.split(',')
RECURSIVE split(_)
split(line) ==
    IF \E i \in DOMAIN line : line[i] = ","
      THEN LET i == CHOOSE k \in DOMAIN line :
                      line[k] = "," /\ \A j \in 1..(k - 1) : line[j] # ","
           IN  <<SubSeq(line, 1, i - 1)>> \o split(SubSeq(line, i + 1, Len(line)))
    ELSE <<line>>

\* r.strip()
RECURSIVE strip(_)
strip(r) ==
    IF r = <<>> THEN r
    ELSE IF Head(r) \in Whitespace THEN strip(Tail(r))
    ELSE IF r[Len(r)] \in Whitespace THEN strip(SubSeq(r, 1, Len(r) - 1))
    ELSE r

\* int(number) in Revision(r.strip()), for the one token of a field.
int(field) == CHOOSE n \in SavedNumbers : <<ToString(n)>> = field

\* set([Revision(r.strip()) for r in line.split(',') if r.strip()])
line_revisions(line) ==
    LET fields == SelectSeq(split(line), LAMBDA r : strip(r) # <<>>)
    IN  {int(strip(fields[i])) : i \in DOMAIN fields}

\* load_record_only_revisions on the text file.
load_text(filename, file) ==
    IF filename = "" \/ ~file.exists THEN {}
    ELSE LET lines == file_lines(file.text)
         IN  UNION {line_revisions(lines[i]) : i \in DOMAIN lines}

InitPersist ==
    /\ NoRun
    /\ NoCommitLog
    /\ NoNamedCalls
    /\ \E filename \in {"", "record_only.txt"}, revs \in SUBSET SavedNumbers,
          file \in {NoTextFile, TextFile(<<"2", ",", "3", Newline>>)} :
         util_call = [pc |-> "ready", fn |-> "record_only_revisions",
                      filename |-> filename, revisions |-> revs,
                      before |-> file, file |-> file, loaded |-> {}]

SaveRecords ==
    /\ util_call.pc = "ready"
    /\ util_call.fn = "record_only_revisions"
    /\ util_call' =
         [util_call EXCEPT
            !.file = save_text(util_call.filename, util_call.file, util_call.revisions),
            !.pc = "saved"]
    /\ UNCHANGED named_calls
    /\ UNCHANGED orch_vars
    /\ UNCHANGED cl_vars

LoadRecords ==
    /\ util_call.pc = "saved"
    /\ util_call.fn = "record_only_revisions"
    /\ util_call' =
         [util_call EXCEPT
            !.loaded = load_text(util_call.filename, util_call.file),
            !.pc = "loaded"]
    /\ UNCHANGED named_calls
    /\ UNCHANGED orch_vars
    /\ UNCHANGED cl_vars

NextPersist == SaveRecords \/ LoadRecords

SpecPersist == InitPersist /\ [][NextPersist]_vars

----------------------------------------------------------------------------
\* add_email_domain called on its own, once and on its own result.  An
\* address or a domain is the sequence of its parts, '@' being a part of its
\* own: 'Foo Bar <foo@bar>' is <<"Foo Bar <", "foo", "@", "bar", ">">>.

LocalParts == {"foo", "bar", "a.b"}
Hosts == {"bar", "localhost"}

\* The addresses: empty, a bare name, a full address, and the bracketed forms.
Emails ==
    {<<>>}
      \cup {<<l>> : l \in LocalParts}
      \cup {<<l, "@", h>> : l \in LocalParts, h \in Hosts}
      \cup {<<"Foo Bar <", l, "@", h, ">">> : l \in LocalParts, h \in Hosts}
      \cup {<<"Foo Bar <", l, ">">> : l \in LocalParts}

\* The domains: none, and a host given with or without its '@'.
Domains == {<<>>} \cup {<<h>> : h \in Hosts} \cup {<<"@", h>> : h \in Hosts}

\* '@' in email
has_at(email) == "@" \in Range(email)

\* The '@' always added: what C26 is tested against.
at_domain_mutant(domain) == <<"@">> \o domain
\* at_domain = domain if domain.startswith('@') else '@' + domain
at_domain(domain) ==
    IF domain # <<>> /\ Head(domain) = "@" THEN domain ELSE <<"@">> \o domain

\* email.endswith(suffix)
endswith(email, suffix) ==
    /\ Len(email) >= Len(suffix)
    /\ SubSeq(email, Len(email) - Len(suffix) + 1, Len(email)) = suffix

\* The domain added to every address: what C25 is tested against.
add_email_domain_mutant(email, domain) ==
    IF domain = <<>> THEN email ELSE email \o at_domain(domain)
add_email_domain(email, domain) ==
    IF domain = <<>> THEN email
    ELSE IF has_at(email) THEN email
    ELSE IF endswith(email, at_domain(domain)) THEN email
    ELSE IF endswith(email, at_domain(domain) \o <<">">>) THEN email
    ELSE email \o at_domain(domain)

InitEmailDomain ==
    /\ NoRun
    /\ NoCommitLog
    /\ NoNamedCalls
    /\ \E email \in Emails, domain \in Domains :
         util_call = [pc |-> "ready", fn |-> "add_email_domain",
                      email |-> email, domain |-> domain,
                      once |-> <<>>, twice |-> <<>>]

AddEmailDomain ==
    /\ util_call.pc = "ready"
    /\ util_call.fn = "add_email_domain"
    /\ LET once == add_email_domain(util_call.email, util_call.domain)
       IN  util_call' =
             [util_call EXCEPT
                !.once = once,
                !.twice = add_email_domain(once, util_call.domain),
                !.pc = "returned"]
    /\ UNCHANGED named_calls
    /\ UNCHANGED orch_vars
    /\ UNCHANGED cl_vars

NextEmailDomain == AddEmailDomain

SpecEmailDomain == InitEmailDomain /\ [][NextEmailDomain]_vars

----------------------------------------------------------------------------
\* MergeEmail.recipients_for_conflict called on its own.  A recipient is None
\* or a string, a string being the sequence of its parts as above, with the
\* blanks around it as parts of their own.

NoString == [none |-> TRUE, text |-> <<>>]
String(text) == [none |-> FALSE, text |-> text]

\* The default recipients MergeEmail is built with: None, a collection, or a
\* string of addresses separated by commas.
NoRecipients == [type |-> "NoneType", items |-> {}, text |-> <<>>]
Collection(items) == [type |-> "list", items |-> items, text |-> <<>>]
CommaSeparated(text) == [type |-> "str", items |-> {}, text |-> text]

RecipientPool ==
    {NoString, String(<<>>), String(<<" ">>), String(<<"bar">>),
     String(<<" ", "bar", " ">>), String(<<"foo", "@", "localhost">>)}

DefaultRecipients ==
    {NoRecipients}
      \cup {Collection(items) : items \in SUBSET RecipientPool}
      \cup {CommaSeparated(text) :
              text \in {<<>>, <<"bar">>, <<"bar", ",", " ", "foo", "@", "localhost">>,
                        <<"foo", ",", ",", " ", ",", "bar">>}}

\* Revision.author: None without an author, else a name.
Authors == {NoString, String(<<>>), String(<<"foo">>), String(<<"bar", " ">>)}

\* MergeEmail.default_recipients
default_recipients(given) ==
    IF given.type = "NoneType" \/ (given.type = "list" /\ given.items = {})
         \/ (given.type = "str" /\ given.text = <<>>)
      THEN {}
    ELSE IF given.type = "str"
      THEN LET fields == SelectSeq(split(given.text), LAMBDA x : x # <<>> /\ strip(x) # <<>>)
           IN  {String(strip(fields[i])) : i \in DOMAIN fields}
    ELSE given.items

\* The blank recipients kept: what C27 is tested against.
filtered_recipients_mutant(recipients) ==
    {strip(y.text) : y \in {r \in recipients : ~r.none}}
\* set([x for x in [y.strip() for y in recipients if y] if x])
filtered_recipients(recipients) ==
    {x \in {strip(y.text) : y \in {r \in recipients : ~r.none /\ r.text # <<>>}} : x # <<>>}

\* recipients_for_conflict, for the author of the revision of the conflict.
recipients_for_conflict(given, domain, author) ==
    LET recipients == default_recipients(given) \cup {author}
    IN  {add_email_domain(x, domain) : x \in filtered_recipients(recipients)}

InitRecipients ==
    /\ NoRun
    /\ NoCommitLog
    /\ NoNamedCalls
    /\ \E given \in DefaultRecipients, author \in Authors,
          domain \in {<<>>, <<"localhost">>, <<"@", "localhost">>} :
         util_call = [pc |-> "ready", fn |-> "recipients_for_conflict",
                      default_recipients |-> given, author |-> author,
                      domain |-> domain, recipients |-> {}]

RecipientsForConflict ==
    /\ util_call.pc = "ready"
    /\ util_call.fn = "recipients_for_conflict"
    /\ util_call' =
         [util_call EXCEPT
            !.recipients = recipients_for_conflict(util_call.default_recipients,
                                                   util_call.domain, util_call.author),
            !.pc = "returned"]
    /\ UNCHANGED named_calls
    /\ UNCHANGED orch_vars
    /\ UNCHANGED cl_vars

NextRecipients == RecipientsForConflict

SpecRecipients == InitRecipients /\ [][NextRecipients]_vars

----------------------------------------------------------------------------
\* Reading a commit message back: the lists of its IDLE-DATA block.

TaggedLines(msg, tag) == SelectSeq(msg.data, LAMBDA l : l.tag = tag)

\* The numbers of the REVISIONS= line, <<>> when the line is absent.
RevisionsOf(msg) ==
    IF TaggedLines(msg, "REVISIONS") = <<>> THEN <<>>
    ELSE TaggedLines(msg, "REVISIONS")[1].revs

\* The numbers of the MERGEINFO_REVISIONS= line, <<>> when the line is absent.
MergeinfoOf(msg) ==
    IF TaggedLines(msg, "MERGEINFO_REVISIONS") = <<>> THEN <<>>
    ELSE TaggedLines(msg, "MERGEINFO_REVISIONS")[1].revs

\* The numbers of the r<n> lines, in the order of the message.
RLinesOf(msg) ==
    LET rl == TaggedLines(msg, "r") IN [i \in 1..Len(rl) |-> rl[i].revs[1]]

StrictlyAscending(s) == \A i \in 1..(Len(s) - 1) : s[i] < s[i + 1]

\* The messages the run has produced: those committed and the one just built.
ProducedMessages ==
    {commits[i].message : i \in DOMAIN commits}
        \cup (IF message = NoMessage THEN {} ELSE {message})

LastCommit == commits[Len(commits)]

----------------------------------------------------------------------------
\* C1: in every commit message the run produces, the REVISIONS and
\* MERGEINFO_REVISIONS lists are disjoint and the r<n> lines list exactly
\* their union, in strictly ascending order of revision number.
C1_IdleDataWellFormed ==
    \A m \in ProducedMessages :
        /\ Range(RevisionsOf(m)) \cap Range(MergeinfoOf(m)) = {}
        /\ Range(RLinesOf(m)) = Range(RevisionsOf(m)) \cup Range(MergeinfoOf(m))
        /\ Len(RLinesOf(m)) = Len(RevisionsOf(m)) + Len(MergeinfoOf(m))
        /\ StrictlyAscending(RLinesOf(m))

\* A commit with a content revision and at least two metadata revisions.
C1_Witness ==
    \E i \in DOMAIN commits :
        /\ Len(RevisionsOf(commits[i].message)) = 1
        /\ Len(MergeinfoOf(commits[i].message)) >= 2
        /\ Len(RLinesOf(commits[i].message)) >= 3

----------------------------------------------------------------------------
\* The subject commit_log is to select from the sizes of the two lists.
ExpectedSubject(r_items, m_items) ==
    IF Len(r_items) = 1 THEN single_revision_message(r_items[1])
    ELSE IF Len(r_items) = 0 /\ Len(m_items) = 1 THEN single_revision_message(m_items[1])
    ELSE IF Len(r_items) = 0 THEN mergeinfo_message
    ELSE [form |-> "multi", source |-> source, number |-> 0, msg |-> <<>>,
          revs |-> sorted(r_items), target |-> target_url]

\* C2: for every shape of argument (None, a Revision, a list, a set) with at
\* least one revision, commit_log returns a message whose subject is the one
\* the sizes of the two lists select.
C2_SubjectBySizes ==
    (cl_pc = "called"
        /\ ~(cl_revisions.items = <<>> /\ cl_mergeinfo_revisions.items = <<>>))
    => /\ cl_result.error = "none"
       /\ cl_result.message.subject =
              ExpectedSubject(cl_revisions.items, cl_mergeinfo_revisions.items)

----------------------------------------------------------------------------
\* C3: commit_log called with no content revision and no metadata revision
\* raises Error and produces no message.
C3_EmptyIsError ==
    (cl_pc = "called" /\ cl_revisions.items = <<>> /\ cl_mergeinfo_revisions.items = <<>>)
    => /\ cl_result.error = "Error"
       /\ cl_result.message = NoMessage

\* commit_log has been called with two empty collections and has raised.
C3_Witness ==
    /\ cl_pc = "called"
    /\ cl_revisions = ListArg(<<>>)
    /\ cl_mergeinfo_revisions = SetArg({})
    /\ cl_result.error = "Error"

----------------------------------------------------------------------------
\* The revisions a message lists, as content or as metadata.
ListedIn(msg) == Range(RevisionsOf(msg)) \cup Range(MergeinfoOf(msg))

\* C4: when the fresh status after the replay of a revision R shows content
\* changes and no conflict, one commit is made, whose message lists R alone
\* as REVISIONS and the pending metadata revisions as MERGEINFO_REVISIONS;
\* when it succeeds the pending set is emptied, and R and the revisions just
\* committed leave revisions_to_merge before the next pass.
C4_ContentCommit ==
    [][/\ (pc = "status" /\ ~has_conflict(status') /\ has_non_props_changes(status'))
            => /\ pc' = "commit"
               /\ commits' = commits
               /\ RevisionsOf(message') = <<revision>>
               /\ Range(MergeinfoOf(message')) = mergeinfo_revisions
               /\ Len(MergeinfoOf(message')) = Cardinality(mergeinfo_revisions)
       /\ pc = "commit"
            => /\ pc' = "after_for"
               /\ Len(commits') = Len(commits) + 1
               /\ SubSeq(commits', 1, Len(commits)) = commits
               /\ commits'[Len(commits')].message = message
               /\ (commits'[Len(commits')].rc = 0 => mergeinfo_revisions' = {})
       /\ (pc = "after_for" /\ mergeinfo_revisions # Range(revisions_to_merge)
              /\ LastCommit.rc = 0)
            => /\ pc' = "while"
               /\ commits' = commits
               /\ mergeinfo_revisions = {}
               /\ revisions_to_merge' =
                      SelectSeq(revisions_to_merge,
                                LAMBDA r : r \notin ListedIn(LastCommit.message))
      ]_vars

\* A commit of revision 2 with revision 1 pending has succeeded: 3 is left.
C4_Witness ==
    /\ pc = "while"
    /\ revisions = <<1, 2, 3>>
    /\ revisions_to_merge = <<3>>
    /\ Len(commits) = 1
    /\ LastCommit.rc = 0
    /\ RevisionsOf(LastCommit.message) = <<2>>
    /\ MergeinfoOf(LastCommit.message) = <<1>>
    /\ mergeinfo_revisions = {}

----------------------------------------------------------------------------
\* C5: after a failed commit the revisions that were pending at that commit
\* are still pending when the next revision is classified.
C5_PendingCarried ==
    (pc = "status" /\ commits # <<>> /\ LastCommit.rc # 0)
    => Range(MergeinfoOf(LastCommit.message)) \subseteq mergeinfo_revisions

----------------------------------------------------------------------------
\* The run has ended by the conflict handler, with a record-only file configured.
EndedByConflict ==
    pc = "done" /\ raised.type = "Conflict" /\ record_only_filename # ""

\* The record-only file holds exactly the revisions of S, in ascending order.
FileHolds(S) ==
    /\ records_file.exists
    /\ Range(records_file.line) = S
    /\ StrictlyAscending(records_file.line)

\* C6 as stated: on a conflict the file receives the pending metadata
\* revisions united with the record-only set as loaded at the start.
C6_PendingAndLoaded ==
    EndedByConflict => FileHolds(mergeinfo_revisions \cup loaded)

\* C6 as amended: on a conflict the file receives the pending metadata
\* revisions united with the loaded record-only revisions that are among the
\* eligible revisions of this run.
C6_PendingAndEligibleLoaded ==
    EndedByConflict
    => FileHolds(mergeinfo_revisions \cup (loaded \cap Range(revisions)))

\* A conflict on revision 3 with revision 2 pending and revision 1 persisted
\* and eligible: 1 and 2 are written back.
C6_Witness ==
    /\ EndedByConflict
    /\ raised.revision = 3
    /\ mergeinfo_revisions = {2}
    /\ loaded = {1}
    /\ revisions = <<1, 2, 3>>
    /\ records_file.line = <<1, 2>>

----------------------------------------------------------------------------
\* The revisions the successful commits of the run list.
CommittedRevisions ==
    UNION {ListedIn(commits[i].message) : i \in {j \in DOMAIN commits : commits[j].rc = 0}}

\* The revisions the run has deferred as metadata-only: each of them is in
\* the metadata list of a commit, or is still pending.
DeferredRevisions ==
    mergeinfo_revisions
        \cup UNION {Range(MergeinfoOf(commits[i].message)) : i \in DOMAIN commits}

\* C7: after a run without conflict the record-only file holds exactly the
\* revisions deferred as metadata-only that no successful commit lists.
C7_FileIsDeferredUncommitted ==
    (pc = "done" /\ exit_code = 0 /\ record_only_filename # "")
    => FileHolds(DeferredRevisions \ CommittedRevisions)

----------------------------------------------------------------------------
\* C8: with commit_mergeinfo, once the inner loop has ended with every
\* remaining revision metadata-only, a commit message covering the pending
\* set and no content revision has been built for the one commit that
\* follows, whatever the size of the set.
C8_MergeinfoCommitBuilt ==
    (commit_mergeinfo /\ pc \in {"commit_mergeinfo", "crashed"})
    => /\ pc = "commit_mergeinfo"
       /\ message # NoMessage
       /\ RevisionsOf(message) = <<>>
       /\ Range(MergeinfoOf(message)) = mergeinfo_revisions

----------------------------------------------------------------------------
\* The inner loop has ended with only metadata-only revisions left.
OnlyMergeinfoLeft ==
    pc = "after_for" /\ mergeinfo_revisions = Range(revisions_to_merge)

\* C9 as stated: without commit_mergeinfo, when the inner loop ends with only
\* metadata-only revisions, no commit is made, the pending set united with
\* the loaded record-only set is written to the file and the batch ends.
C9_SkipWritesLoaded ==
    [][(OnlyMergeinfoLeft /\ ~commit_mergeinfo /\ record_only_filename # "")
          => /\ commits' = commits
             /\ pc' = "done"
             /\ records_file'.exists
             /\ Range(records_file'.line) = mergeinfo_revisions \cup loaded
      ]_vars

\* C9 as amended: the set written is the pending set united with the loaded
\* record-only revisions that are among the eligible revisions of this run;
\* without a record-only file nothing is written.
C9_SkipWritesEligibleLoaded ==
    [][(OnlyMergeinfoLeft /\ ~commit_mergeinfo)
          => /\ commits' = commits
             /\ pc' = "done"
             /\ exit_code' = 0
             /\ IF record_only_filename = "" THEN records_file' = records_file
                ELSE /\ records_file'.exists
                     /\ StrictlyAscending(records_file'.line)
                     /\ Range(records_file'.line) =
                            mergeinfo_revisions \cup (loaded \cap Range(revisions))
      ]_vars

\* The batch has ended without a commit: 1 and 3 were pending, 2 persisted.
C9_Witness ==
    /\ pc = "done"
    /\ exit_code = 0
    /\ ~commit_mergeinfo
    /\ commits = <<>>
    /\ revisions = <<1, 3>>
    /\ mergeinfo_revisions = {1, 3}
    /\ loaded = {2, 3}
    /\ records_file.line = <<1, 3>>

----------------------------------------------------------------------------
\* C10: no commit message lists as REVISIONS a revision that is classified
\* record-only, by the persisted set or by a no-merge pattern.
C10_RecordOnlyNeverContent ==
    \A m \in ProducedMessages :
        \A r \in Range(RevisionsOf(m)) :
            ~is_no_merge_revision(r, record_only_revisions)

----------------------------------------------------------------------------
\* C11: in both single modes the revisions are replayed in strictly ascending
\* order of revision number, whatever the order of the output of the
\* eligibility query: a revision replayed before another has the smaller number.
C11_ReplayedAscending ==
    \A i, j \in DOMAIN replays :
        i < j => replays[i].revision < replays[j].revision

----------------------------------------------------------------------------
\* The steps of the conflict handler, when the sink returns and when it raises.
HandlerSteps == <<"print", "save", "email">>
HandlerStepsRaised == <<"print", "save", "email raised">>

IsPrefix(s, t) == Len(s) <= Len(t) /\ SubSeq(t, 1, Len(s)) = s

----------------------------------------------------------------------------
\* C13: when the second update of the workspace reset exits nonzero, the run
\* has ended with the fatal error of the reset, before the eligibility query
\* and before any replay; when it exits zero the reset raises nothing.
C13_ResetAbortsOnFailedUpdate ==
    (update_rc # NoExit)
    => /\ (update_rc # 0)
            => (pc = "crashed" /\ raised = ResetFailed /\ revisions = <<>> /\ replays = <<>>)
       /\ (update_rc = 0) => raised # ResetFailed

----------------------------------------------------------------------------
\* C16: whenever a revision has just been replayed, in concise or in
\* non-concise single mode, the command was the record-only merge exactly
\* when the revision is in the set persisted in the record-only file or its
\* message contains a no-merge pattern.
C16_ReplayFollowsClassifier ==
    (pc \in {"resolve", "one_by_one"} /\ replays # <<>>)
    => LET last == replays[Len(replays)]
           persisted == load_record_only_revisions(record_only_filename, records_file)
       IN  (last.as = "record-only")
               <=> (last.revision \in persisted
                    \/ no_merge_under(no_merge_patterns, last.revision, {}))

----------------------------------------------------------------------------
\* The merge commands of the replay called on its own, and the other commands.
IsMerge(c) == c.name \in {"merge", "merge --record-only"}
MergeCommands == SelectSeq(merge_call.commands, IsMerge)
Returned == merge_call.pc = "returned"

\* C14: a replay (content or record-only) makes at most three merge attempts;
\* an attempt that fails with the retryable error is followed by an update
\* and, unless it was the third, by another attempt; any other failure is the
\* last command of the replay; a replay whose last attempt failed returns a
\* failure.
C14_UpdateAndRetry ==
    Returned =>
        LET cmds == merge_call.commands IN
        /\ Len(MergeCommands) \in 1..MaxAttempts
        /\ \A i \in DOMAIN cmds :
             IsMerge(cmds[i]) =>
                LET nth == Len(SelectSeq(SubSeq(cmds, 1, i), IsMerge))
                IN  IF is_retryable(cmds[i].return_code, cmds[i].stderr)
                      THEN /\ i + 1 <= Len(cmds)
                           /\ cmds[i + 1].name = "update"
                           /\ (nth < MaxAttempts
                                 => (i + 2 <= Len(cmds) /\ IsMerge(cmds[i + 2])))
                      ELSE /\ \A j \in DOMAIN cmds : j > i => ~IsMerge(cmds[j])
                           /\ (cmds[i].return_code # 0 => i = Len(cmds))
        /\ (merge_call.return_code # 0) => merge_call.result \in {"False", "nonzero"}

----------------------------------------------------------------------------
\* C15: a replay (content or record-only) that succeeded with a non-empty
\* ignore list ends with one revert of the ignore-list paths, issued after
\* the merge and before the replay returns to the loop that reads the status;
\* a replay that failed, or whose ignore list is empty, issues no revert.
C15_IgnoreListReverted ==
    Returned =>
        LET cmds == merge_call.commands
            reverts == SelectSeq(cmds, LAMBDA c : c.name = "revert")
        IN  IF merge_call.return_code = 0 /\ merge_call.ignore # <<>>
              THEN /\ Len(reverts) = 1
                   /\ cmds[Len(cmds)].name = "revert"
                   /\ cmds[Len(cmds)].paths = ignored_paths(merge_call.ignore)
                   /\ IsMerge(cmds[Len(cmds) - 1])
              ELSE reverts = <<>>

----------------------------------------------------------------------------
\* C17: for every revision, record-only set and pattern sets P included in Q,
\* a revision classified record-only under P is classified record-only under
\* Q, and the classification leaves the pattern sets and the record-only set
\* as they were.
C17_ClassifierMonotoneAndPure ==
    (classify_call.pc = "called")
    => /\ classify_call.under_fewer => classify_call.under_more
       /\ classify_call.fewer_after = classify_call.fewer
       /\ classify_call.more_after = classify_call.more
       /\ classify_call.record_only_after = classify_call.record_only

\* Revision 2, in no record-only set, classified by the pattern NO_MERGE
\* alone and by NO_MERGE with a pattern its message does not contain.
C17_Witness ==
    /\ classify_call.pc = "called"
    /\ classify_call.revision = 2
    /\ classify_call.record_only = {1}
    /\ classify_call.fewer = {<<"NO_MERGE">>}
    /\ classify_call.more = {<<"NO_MERGE">>, <<"log message for revision", " ">>}
    /\ classify_call.under_fewer
    /\ classify_call.under_more

----------------------------------------------------------------------------
\* The first line of a text that is the marker line, 0 when there is none.
FirstMarker(text) ==
    LET at == {i \in DOMAIN text : text[i].kind = "marker"}
    IN  IF at = {} THEN 0 ELSE CHOOSE i \in at : \A j \in at : i <= j

\* The numbers a block of text gives for a tag, {} when no line has the tag.
TagOf(text, tag) ==
    UNION {Range(text[i].data.revs) : i \in {j \in DOMAIN text : text[j].data.tag = tag}}

\* C18: a parsed message is split at its first marker line: msg is the text
\* before that line and idle_data the text after it, empty when there is no
\* marker; from the idle_data of a message commit_log built from disjoint R
\* and M, R and M are read back; the no-merge patterns are looked for in msg
\* and nowhere else.
C18_SplitAtMarker ==
    (parse_call.pc = "parsed") =>
        LET full == parse_call.full_msg
            i == FirstMarker(full)
            before == IF i = 0 THEN full ELSE SubSeq(full, 1, i - 1)
            after == IF i = 0 THEN <<>> ELSE SubSeq(full, i + 1, Len(full))
        IN  /\ parse_call.msg = before
            /\ parse_call.idle_data = after
            /\ parse_call.built =>
                  /\ TagOf(parse_call.idle_data, "REVISIONS")
                         = Range(parse_call.revisions.items)
                  /\ TagOf(parse_call.idle_data, "MERGEINFO_REVISIONS")
                         = Range(parse_call.mergeinfo_revisions.items)
            /\ parse_call.no_merge
                  <=> \E pattern \in no_merge_patterns : in_comment(pattern, before)

----------------------------------------------------------------------------
\* The tree conflicts the resolver may mark resolved: a double delete, and a
\* double add of a file whose two digests were obtained and are equal.
Decidable(c) ==
    /\ c.tree_conflict.present
    /\ \/ (c.tree_conflict.action = "delete" /\ c.tree_conflict.reason = "delete")
       \/ /\ c.tree_conflict.action = "add"
          /\ c.tree_conflict.reason = "add"
          /\ c.tree_conflict.kind = "file"
          /\ c.source_md5 # NoDigest
          /\ c.victim_md5 = c.source_md5

\* The svn commands that leave the content of every file as it is.
ContentPreserving == {"info", "cat", "resolved", "status"}

\* C19: the resolver issues `resolved`, on the victim path, only for a double
\* delete or for a double add of a file with equal digests on both sides; in
\* every other case (other actions and reasons, a directory, digests that
\* differ or could not be obtained, no tree conflict) it issues no `resolved`
\* and reports the entry unresolved; it issues no command that changes the
\* content of a file.
C19_ResolvesOnlyDecidable ==
    (resolve_call.pc = "returned") =>
        LET cmds == resolve_call.commands
            resolves == SelectSeq(cmds, LAMBDA c : c.name = "resolved")
        IN  /\ (resolves # <<>>) => Decidable(resolve_call)
            /\ ~Decidable(resolve_call) => (resolves = <<>> /\ resolve_call.unresolved)
            /\ \A i \in DOMAIN resolves : resolves[i].paths = victim_path
            /\ Len(resolves) <= 1
            /\ \A i \in DOMAIN cmds : cmds[i].name \in ContentPreserving

\* A double add of a file with equal digests: marked resolved.
C19_Witness ==
    /\ resolve_call.pc = "returned"
    /\ resolve_call.tree_conflict = TreeConflict("add", "add", "file", TRUE)
    /\ resolve_call.source_md5 = resolve_call.victim_md5
    /\ resolve_call.source_md5 # NoDigest
    /\ Len(resolve_call.commands) = 4
    /\ resolve_call.commands[4].name = "resolved"
    /\ ~resolve_call.unresolved

----------------------------------------------------------------------------
\* The working-copy paths of the paths a revision touched in a branch: the
\* target root for the branch itself, the path below the branch otherwise,
\* as status prints them.
TouchedInWorkingCopy(paths, branch_path) ==
    {in_target(revert_call.target,
               IF q = branch_path THEN root_path
               ELSE SubSeq(q, Len(branch_path) + 1, Len(q)))
       : q \in {t \in paths : t = branch_path \/ startswith(t, branch_path)}}

\* C20: for every revision R and every status, no working-copy path of a
\* path R touched in the branch it is replayed from is among the paths the
\* reverter reverts.
C20_TouchedNeverReverted ==
    (revert_call.pc = "returned")
    => TouchedInWorkingCopy(revert_call.paths, revert_call.original_branch.path)
           \cap Range(revert_call.to_revert) = {}

----------------------------------------------------------------------------
\* C21: in noop mode no commit command is ever issued, and each attempted
\* commit is treated as a successful one: the pending mergeinfo-only
\* revisions are cleared and the batch goes on.
C21_NoopCommitsNothingAndSucceeds ==
    [][(noop /\ pc \in {"commit", "commit_mergeinfo"})
         => /\ Len(commits') = Len(commits) + 1
            /\ ~commits'[Len(commits')].issued
            /\ mergeinfo_revisions' = {}
            /\ pc' \in {"after_for", "final_save"}]_vars

----------------------------------------------------------------------------
\* C22: every child process spawned during a run, the report of a conflict
\* included, has an argument vector that starts with 'svn --non-interactive'.
C22_ChildrenNonInteractive ==
    \A i \in DOMAIN children :
        /\ Len(children[i]) >= 2
        /\ children[i][1] = "svn"
        /\ children[i][2] = "--non-interactive"

----------------------------------------------------------------------------
\* C23: two runs of execute_command that differ by the password only write
\* the same debug line when verbose, a line that shows '%%PASSWORD%%' where
\* the command has it, while each child process receives its password in
\* place of every '%%PASSWORD%%' and the other arguments as they are.
C23_DebugIndependentOfPassword ==
    (util_call.pc = "returned" /\ util_call.fn = "execute_command")
    => LET command == util_call.command
           runs == util_call.runs
       IN  /\ runs[1].debug = runs[2].debug
           /\ Len(runs[1].debug) = IF util_call.verbose THEN 1 ELSE 0
           /\ \A r \in 1..2 :
                /\ \A l \in Range(runs[r].debug) :
                     /\ Len(l.text) = 2 * Len(command) - 1
                     /\ \A i \in DOMAIN command : l.text[2 * i - 1] = command[i]
                /\ Len(runs[r].argv) = Len(command)
                /\ ~util_call.passwords[r].none
                     => \A i \in DOMAIN command :
                          runs[r].argv[i] = IF command[i] = PLACEHOLDER
                                              THEN util_call.passwords[r].text
                                              ELSE command[i]

\* Two verbose runs of a command with the placeholder, with two passwords.
C23_Witness ==
    /\ util_call.pc = "returned"
    /\ util_call.fn = "execute_command"
    /\ util_call.verbose
    /\ PLACEHOLDER \in Range(util_call.command)
    /\ util_call.passwords = <<Password("s3cret"), Password("hunter2")>>
    /\ "s3cret" \in Range(util_call.runs[1].argv)
    /\ "hunter2" \in Range(util_call.runs[2].argv)
    /\ PLACEHOLDER \in Range(util_call.runs[1].debug[1].text)

----------------------------------------------------------------------------
\* The numbers of a text, in its order, and the number a token spells.
NumbersIn(text) == SelectSeq(text, LAMBDA t : t \notin Whitespace \cup {","})
NumberOf(token) == CHOOSE n \in SavedNumbers : ToString(n) = token

\* A text that is one line of ascending numbers separated by commas.
OneAscendingLine(text) ==
    LET numbers == NumbersIn(text)
    IN  /\ text # <<>>
        /\ \A i \in DOMAIN text : (text[i] = Newline) <=> (i = Len(text))
        /\ Len(text) = (IF numbers = <<>> THEN 0 ELSE 2 * Len(numbers) - 1) + 1
        /\ \A i \in 1..(Len(text) - 1) : (text[i] = ",") <=> (i % 2 = 0)
        /\ \A i, j \in DOMAIN numbers :
             i < j => NumberOf(numbers[i]) < NumberOf(numbers[j])

\* C24: with a file path, load after save(S) returns exactly S, the text saved
\* being one line of the numbers of S, ascending and separated by commas,
\* the empty set included; without a file path, save writes nothing and load
\* returns the empty set.
C24_PersistenceRoundTrips ==
    (util_call.fn = "record_only_revisions")
    => LET S == util_call.revisions
           text == util_call.file.text
       IN  IF util_call.filename # ""
             THEN /\ util_call.pc \in {"saved", "loaded"}
                     => /\ util_call.file.exists
                        /\ OneAscendingLine(text)
                        /\ Range(NumbersIn(text)) = {ToString(n) : n \in S}
                  /\ util_call.pc = "loaded" => util_call.loaded = S
             ELSE /\ util_call.file = util_call.before
                  /\ util_call.pc = "loaded" => util_call.loaded = {}

\* Three revisions, one of two digits, saved over an older file and loaded.
C24_Witness ==
    /\ util_call.fn = "record_only_revisions"
    /\ util_call.pc = "loaded"
    /\ util_call.filename # ""
    /\ util_call.before.exists
    /\ util_call.revisions = {1, 3, 12}
    /\ util_call.file.text = <<"1", ",", "3", ",", "12", Newline>>
    /\ util_call.loaded = {1, 3, 12}

----------------------------------------------------------------------------
\* C25: add_email_domain applied to its own result with the same domain
\* returns that result.
C25_AddEmailDomainIdempotent ==
    (util_call.fn = "add_email_domain" /\ util_call.pc = "returned")
    => util_call.twice = util_call.once

\* A domain was added by the first call and not again by the second.
C25_Witness ==
    /\ util_call.fn = "add_email_domain"
    /\ util_call.pc = "returned"
    /\ util_call.email = <<"foo">>
    /\ util_call.domain = <<"bar">>
    /\ util_call.once = <<"foo", "@", "bar">>
    /\ util_call.twice = util_call.once

----------------------------------------------------------------------------
\* A domain without the '@' it may be given with.
BareDomain(domain) ==
    IF domain # <<>> /\ Head(domain) = "@" THEN Tail(domain) ELSE domain

\* C26: add_email_domain(e, d) is e when d is empty or e contains '@', the
\* bracketed forms included; otherwise it is e, one '@' and d without the
\* '@' it may start with.
C26_AddEmailDomainResult ==
    (util_call.fn = "add_email_domain" /\ util_call.pc = "returned")
    => LET e == util_call.email
           d == util_call.domain
       IN  IF d = <<>> \/ \E i \in DOMAIN e : e[i] = "@"
             THEN util_call.once = e
             ELSE util_call.once = e \o <<"@">> \o BareDomain(d)

\* A bracketed address left as it is, the domain given with its '@'.
C26_Witness ==
    /\ util_call.fn = "add_email_domain"
    /\ util_call.pc = "returned"
    /\ util_call.email = <<"Foo Bar <", "foo", "@", "bar", ">">>
    /\ util_call.domain = <<"@", "bar">>
    /\ util_call.once = util_call.email

----------------------------------------------------------------------------
\* A string without the blanks it has as parts.
Unblanked(text) == SelectSeq(text, LAMBDA t : t \notin Whitespace)

\* The addresses named by the default recipients and the author: the items
\* of the collection or the fields between the commas of the string, and
\* the author, the missing and the blank ones left out.
NamedAddresses(given, author) ==
    LET fields == split(given.text)
        strings == {r.text : r \in {x \in given.items \cup {author} : ~x.none}}
                     \cup (IF given.type = "str" THEN Range(fields) ELSE {})
    IN  {Unblanked(x) : x \in strings} \ {<<>>}

\* C27: recipients_for_conflict returns the set of the addresses named by the
\* default recipients and by the author of the revision, each completed by
\* add_email_domain: an author the defaults name appears once, and the set is
\* empty when nothing is named.
C27_RecipientsForConflict ==
    (util_call.fn = "recipients_for_conflict" /\ util_call.pc = "returned")
    => LET named == NamedAddresses(util_call.default_recipients, util_call.author)
       IN  /\ util_call.recipients
                = {add_email_domain(x, util_call.domain) : x \in named}
           /\ Cardinality(util_call.recipients) <= Cardinality(named)
           /\ <<>> \notin util_call.recipients
           /\ \A x \in util_call.recipients : x[1] \notin Whitespace \cup {"@"}
           /\ (util_call.default_recipients = NoRecipients /\ util_call.author = NoString)
                => util_call.recipients = {}

\* test_add_author_once: the author is among the defaults with the domain.
C27_Witness ==
    /\ util_call.fn = "recipients_for_conflict"
    /\ util_call.pc = "returned"
    /\ util_call.default_recipients
         = Collection({String(<<"foo", "@", "localhost">>), String(<<"bar">>)})
    /\ util_call.author = String(<<"foo">>)
    /\ util_call.domain = <<"@", "localhost">>
    /\ util_call.recipients = {<<"foo", "@", "localhost">>, <<"bar", "@", "localhost">>}

----------------------------------------------------------------------------
\* The paths of the entries of a status that are not under version control.
UnversionedPaths(st) == {st[i].path : i \in {j \in DOMAIN st : st[j].item = "unversioned"}}

\* C28: the workspace reset runs a recursive revert, an update and a status,
\* removes entries and runs a second update, in this order, and the entries it
\* removes are exactly the unversioned entries of that status: nothing under
\* version control is removed.
C28_ResetRemovesUnversionedOnly ==
    /\ (pc = "second_update")
         => /\ children = <<revert_all_argv, update_argv, status_argv>>
            /\ Range(removed) = UnversionedPaths(status)
    /\ ((pc = "eligible" /\ update_rc # NoExit) \/ raised = ResetFailed)
         => children = <<update_argv>>
    /\ (pc # "second_update") => removed = <<>>

----------------------------------------------------------------------------
\* C29: the paths the reverter passes to revert are exactly the paths of the
\* status entries that are not in the legitimate set and whose item is not
\* unversioned.
C29_RevertsExactlySpurious ==
    (revert_call.pc = "returned")
    => Range(revert_call.to_revert)
         = {e.path : e \in {x \in Range(revert_call.status) :
                              /\ x.path \notin revert_call.no_revert
                              /\ x.item # "unversioned"}}

----------------------------------------------------------------------------
\* C30: for every target, the legitimate paths of the concise batch are at
\* first the target alone, each call of the reverter returns a superset of
\* the set it was given, and the target root is never among the paths it
\* reverts.
C30_TargetRootLegitimate ==
    /\ revert_call.pc # "off"
         => /\ revert_call.merged_paths = {<<revert_call.target>>}
            /\ revert_call.merged_paths \subseteq revert_call.valid_entries
    /\ revert_call.pc = "returned"
         => /\ revert_call.valid_entries \subseteq revert_call.no_revert
            /\ <<revert_call.target>> \notin Range(revert_call.to_revert)

----------------------------------------------------------------------------
\* An entry that is a real change: a conflict, or an item state other than
\* normal on an entry that is under version control.
RealChange(e) == entry_has_conflict(e) \/ e.item \notin {"normal", "unversioned"}

HasRealChanges(st) == \E i \in DOMAIN st : RealChange(st[i])

\* C31: the status classification of the batch loop finds real changes exactly
\* when some entry of the fresh status has a conflict or an item state other than
\* normal, entries that are not under version control left aside; a status
\* without such an entry never leads to the commit of a content change.
C31_RealChangesExcludeUnversioned ==
    [][pc = "status"
         => /\ has_non_props_changes(status') <=> HasRealChanges(status')
            /\ pc' = "commit" => HasRealChanges(status')]_vars

----------------------------------------------------------------------------
\* The revisions replayed so far, in the order of their replay.
ReplayedRevisions == [i \in DOMAIN replays |-> replays[i].revision]

----------------------------------------------------------------------------
\* C33: in non-concise single mode, a failure report has been printed for the
\* revision just replayed exactly when its replay, of content or record-only,
\* ended with a nonzero exit code; none is printed for a replay that succeeded.
C33_ErrorReportedIffReplayFailed ==
    (single /\ ~concise /\ pc = "one_by_one" /\ replays # <<>>)
    => (reported # <<>> <=> merge_rc # 0)

----------------------------------------------------------------------------
\* C34: at most one child process is alive at any time: when a command of a
\* step is spawned every child spawned before it, the streamed `svn cat`
\* included, has been waited on.
C34_OneChildAlive ==
    util_call.fn = "children"
    => /\ Cardinality(util_call.alive) <= 1
       /\ util_call.pc \in {"call", "returned"} => util_call.alive = {}
       /\ util_call.pc = "reading" => util_call.alive = {util_call.i}

\* The second `svn cat` of a double add is running: the first one was reaped.
C34_Witness ==
    /\ util_call.fn = "children"
    /\ util_call.pc = "reading"
    /\ util_call.i > 1
    /\ util_call.commands[util_call.i] = cat_head_argv
    /\ util_call.commands[util_call.i - 1] = cat_argv(1)
    /\ util_call.alive = {util_call.i}

----------------------------------------------------------------------------
\* A text is under a root as a path: it is the root, or the root followed
\* by '/' and more.
UnderPath(text, root) == text = root \/ str_startswith(text, root \o <<"/">>)

\* The texts of the form '<root>/trunk' or '<root>/branches/<name>' for a root
\* '^/<project>' that a text starts with as a path, and the roots themselves.
BranchForms(text) ==
    {e \in 5..Len(text) :
       /\ UnderPath(text, SubSeq(text, 1, e))
       /\ text[1] = "^" /\ text[2] = "/"
       /\ \E k \in 4..e :
            /\ text[k] = "/" /\ text[k - 1] \in Words
            /\ \/ k + 1 = e /\ text[e] = "trunk"
               \/ /\ k + 3 <= e
                  /\ text[k + 1] = "branches" /\ text[k + 2] = "/"
                  /\ \A j \in (k + 3)..e : text[j] \in Words}

HasBranchForm(text) == Len(text) \in BranchForms(text)

\* The project of a branch of that form: the branch without its last
\* '/trunk' or '/branches/<name>'.
ProjectOf(branch) ==
    IF branch[Len(branch)] = "trunk" /\ branch[Len(branch) - 1] = "/"
      THEN SubSeq(branch, 1, Len(branch) - 2)
      ELSE LET k == CHOOSE k \in 1..Len(branch) :
                      /\ branch[k] = "branches"
                      /\ \A j \in (k + 2)..Len(branch) : branch[j] \in Words
           IN  SubSeq(branch, 1, k - 2)

\* The effective source branch as the specification describes it.
EffectiveBranch(branch, paths) ==
    LET this_path(i) == <<"^">> \o paths[i]
        under_project == {i \in DOMAIN paths :
                            UnderPath(this_path(i), ProjectOf(branch))}
        last == CHOOSE i \in under_project : \A j \in under_project : j <= i
    IN  IF ~HasBranchForm(branch) THEN branch
        ELSE IF \E i \in DOMAIN paths : UnderPath(this_path(i), branch) THEN branch
        ELSE IF under_project = {} THEN branch
        ELSE IF BranchForms(this_path(last)) = {} THEN branch
        ELSE SubSeq(this_path(last), 1,
                    CHOOSE e \in BranchForms(this_path(last)) :
                      \A f \in BranchForms(this_path(last)) : f <= e)

\* C35: the effective source branch of a revision is the configured source
\* when a touched path is under it as a path, else the branch prefix of the
\* last touched path under the project root, else the configured source; it
\* is the configured source whenever that is not a branch or trunk of a
\* project named relative to the repository root.
C35_EffectiveSourceBranch ==
    (util_call.fn = "original_branch" /\ util_call.pc = "returned")
    => util_call.result = EffectiveBranch(util_call.branch, util_call.paths)

----------------------------------------------------------------------------
\* What the log entry of revision n gives for an attribute.
LogEntryValue(attribute, n) ==
    CASE attribute = "author" -> Author(n)
      [] attribute = "date" -> Date(n)
      [] attribute = "msg" -> get_msg(FullMsg(n)).msg
      [] attribute = "idle_data" -> get_msg(FullMsg(n)).idle_data
      [] attribute = "paths" -> PathsOf(n)
      [] attribute = "original_branch" -> get_original_branch(RevisionBranch, PathsOf(n))

\* C36: once the number of a Revision has been re-assigned to a different
\* value, whatever was read before, every read of author, date, message,
\* IDLE-DATA block, touched paths and effective source branch returns what the
\* log entry of the current number gives.
C36_ReassignInvalidatesCache ==
    (util_call.fn = "Revision" /\ util_call.reassigned /\ util_call.pc = "read")
    => util_call.last.value
         = LogEntryValue(util_call.last.attribute, util_call.revision.number)

----------------------------------------------------------------------------
\* C37: in concise mode, a revision whose content merge ended with a nonzero
\* exit code is not added to the pending metadata when its fresh status is
\* classified, so that it is neither listed as MERGEINFO_REVISIONS of a commit
\* nor written to the record-only file.
C37_FailedMergeNeverPending ==
    [][(pc = "status" /\ replayed_as = "merge" /\ merge_rc # 0)
         => revision \notin mergeinfo_revisions']_vars

----------------------------------------------------------------------------
\* The revisions the record-only file names.
FileRevisions == IF records_file.exists THEN Range(records_file.line) ELSE {}

\* C38: when the concise batch has returned normally with a record-only file
\* configured, every eligible revision is listed in a commit that succeeded
\* or is in the set written to the record-only file.
C38_NoRevisionDropped ==
    (pc = "done" /\ exit_code = 0 /\ concise /\ record_only_filename # "")
    => Range(revisions) \subseteq (CommittedRevisions \cup FileRevisions)

----------------------------------------------------------------------------
\* C39: the concise batch always ends, by its return or by a Conflict;
\* revisions_to_merge is strictly shorter after every pass of the outer loop
\* that is followed by another, and no eligible revision is replayed twice.
C39_ConciseBatchTerminates ==
    /\ <>((pc = "done" /\ exit_code = 0) \/ raised.type = "Conflict")
    /\ [][(pc = "after_for" /\ pc' = "while")
            => Len(revisions_to_merge') < Len(revisions_to_merge)]_vars
    /\ [](\A n \in Revisions : replayed_times(n) <= 1)

----------------------------------------------------------------------------
\* A status with an entry in conflict: a tree conflict, or a conflict of its
\* content or of its properties.
Conflicted(st) ==
    \E i \in DOMAIN st :
        st[i].tree_conflicted \/ st[i].item = "conflicted" \/ st[i].props = "conflicted"

\* C40: in concise mode each replay is followed by the conflict resolution,
\* the revert of spurious changes, the fresh status and its classification, in
\* that order; a commit is attempted only when the last fresh status has no
\* entry in conflict; and once a Conflict has been raised no revision is
\* replayed and no commit is attempted.
C40_StepOrderAndConflictStops ==
    [][/\ pc = "replay" => pc' = "resolve" /\ Len(replays') = Len(replays) + 1
       /\ pc = "resolve" => pc' = "revert" /\ status_argv \in Range(children')
       /\ pc = "revert" => pc' = "status" /\ status_argv \in Range(children')
       /\ pc = "status" => /\ children' = <<status_argv>>
                           /\ pc' \in {"replay", "after_for", "commit", "conflict",
                                       "crashed"}
                           /\ pc' = "conflict" <=> Conflicted(status')
       /\ replays' # replays => pc = "replay"
       /\ commits' # commits => ~Conflicted(status) /\ raised = NoRaise
       /\ raised.type = "Conflict" => replays' = replays /\ commits' = commits]_vars

\* A Conflict was raised for the second revision replayed, after a commit of
\* the first, and the run has ended.
C40_Witness ==
    /\ concise
    /\ pc = "done"
    /\ raised.type = "Conflict"
    /\ Conflicted(status)
    /\ Len(commits) = 1
    /\ Len(replays) = 2

====
